---- MODULE Spec2Model ----
(***************************************************************************)
(* A model of the HDB++ viewer's archive connector (hdbpp.py), its size-   *)
(* limited LRU cache (utils.py) and the driver-future bridge               *)
(* (aiocassandra.py).                                                      *)
(*                                                                         *)
(* The specifications share the variables:                                 *)
(*   SpecCache    one caller issues get/set on a SizeLimitedCache          *)
(*   SpecThreads  two threads run get/set statement by statement           *)
(*   Spec         get_attribute_data calls on the task loop, the driver    *)
(*                completing the per-day fetches in any order              *)
(*   SpecGather   one call over a window of several chunks                 *)
(*   SpecToday    one call when the cache holds a series for today         *)
(*   SpecPeriods  the periods get_attribute_data derives from a window     *)
(*   SpecMemo     sequential calls of a memoized_ttl function              *)
(*   SpecRetry    one call of a retry_future function                      *)
(*   SpecBridge   execute_future calls of the asyncio bridge               *)
(*   SpecCancel   a call cancelled while its fetches are in flight         *)
(*   SpecPrepare  the registry of prepared statements                      *)
(*   SpecTrim     the trim of get_data to the requested window             *)
(*   SpecLru      an LRUDict with a maximum age                            *)
(*   SpecTodayLive  SpecToday with a fair driver and task loop             *)
(*   SpecInstances  two SizeLimitedCache instances                         *)
(*   SpecConfigs  data requests against the memoized configuration map     *)
(*   SpecPool     worker threads inside a memoized_ttl function            *)
(***************************************************************************)
EXTENDS Naturals, Integers, Sequences, FiniteSets, TLC

VARIABLES
    _cache,       \* SizeLimitedCache._cache: the OrderedDict, oldest entry first
    _sizes,       \* SizeLimitedCache._sizes: name -> recorded cost
    max_size,     \* SizeLimitedCache.max_size
    access_order, \* history: held names ordered by their last admitted access
    insert_order, \* history: held names ordered by their last admitted set
    last_op,      \* history: the operation that produced this state
    thr,          \* SpecThreads: each thread's position inside get/set
    today,        \* Spec: date.today(), as a day number
    db,           \* Spec: the archive, day -> the series stored for that day
    call,         \* Spec: the get_attribute_data calls and their futures
    win,          \* SpecPeriods: a time window and the periods derived from it
    memo,         \* SpecMemo: a function wrapped by memoized_ttl and its clock
    retry,        \* SpecRetry: a function wrapped by retry_future
    bridge,       \* SpecBridge: one execute_future call of the asyncio bridge
    prep,         \* SpecPrepare: the registry of prepared statements
    trim,         \* SpecTrim: one restrict_time trim of get_data
    lru,          \* SpecLru: an LRUDict with maxduration and its clock
    inst,         \* SpecInstances: two SizeLimitedCache instances
    conf,         \* SpecConfigs: the memoized configuration map
    pool          \* SpecPool: worker threads inside a memoized_ttl function

cacheVars == <<_cache, _sizes, max_size>>
histVars == <<access_order, insert_order, last_op>>
connVars == <<today, db, call>>
moreVars == <<bridge, prep, trim, lru, inst, conf, pool>>
utilVars == <<win, memo, retry, bridge, prep, trim, lru, inst, conf, pool>>
vars == <<_cache, _sizes, max_size, access_order, insert_order, last_op, thr,
          today, db, call, win, memo, retry, bridge, prep, trim,
          lru, inst, conf, pool>>

\* the variables of the specifications about utils.py and the period
\* derivation, where they are not in use
LastIdle == lru = << >> /\ inst = << >> /\ conf = << >> /\ pool = << >>
lastVars == <<lru, inst, conf, pool>>
MoreIdle == bridge = << >> /\ prep = << >> /\ trim = << >> /\ LastIdle
UtilIdle == win = << >> /\ memo = << >> /\ retry = << >> /\ MoreIdle

(***************************************************************************)
(* Bounds of the model.                                                    *)
(***************************************************************************)
\* periods (days) are numbered 1..MaxDay
MaxDay == 2
\* the largest cache budget tried (cost unit: one row)
MaxBudget == 2
\* the longest series offered to the cache by SpecCache and SpecThreads
MaxRows == 2

(***************************************************************************)
(* Data: a sample is <<data_time, data_time_us>>; a series (data frame) is *)
(* a sequence of samples.                                                  *)
(***************************************************************************)
Days == 1..MaxDay
ControlSystems == {"cs"}
Attrs == {"a"}
\* cache keys as built at hdbpp.py:342/356/370: (cs, attr, period)
Keys == ControlSystems \X Attrs \X Days

\* the names SpecCache and SpecThreads use: three keys of one attribute
TestNames == {<<"cs", "a", p>> : p \in {1, 2, 3}}
\* the values they offer: one series of each length 0..MaxRows, and a second
\* one-row series (two different values of the same cost)
TestValues ==
    {[i \in 1..n |-> <<0, 0>>] : n \in 0..MaxRows} \cup {<< <<0, 1>> >>}

\* hdbpp.py:137  get_item_size = lambda df: df.memory_usage().sum()
\* the cost of a frame grows with its rows; the unit here is one row.
get_item_size(df) == Len(df)

(***************************************************************************)
(* SizeLimitedCache (utils.py:174-236).  The OrderedDict is a sequence of  *)
(* [name, value] entries, least recently used first.                       *)
(***************************************************************************)
Entry(name, value) == [name |-> name, value |-> value]

CacheNames(c) == {c[i].name : i \in DOMAIN c}

\* OrderedDict.pop(name, None): drop the entry of name, keep the order
OdPop(c, name) == SelectSeq(c, LAMBDA e : e.name # name)

\* OrderedDict lookup
OdValue(c, name) == (CHOOSE i \in DOMAIN c : c[i].name = name)
OdLookup(c, name) == c[OdValue(c, name)].value

\* dict.pop(name, None)
DictPop(s, name) == [k \in (DOMAIN s) \ {name} |-> s[k]]

RECURSIVE SumOver(_, _)
SumOver(s, ks) ==
    IF ks = {} THEN 0
    ELSE LET k == CHOOSE x \in ks : TRUE IN s[k] + SumOver(s, ks \ {k})

\* utils.py:201-203  size = sum(self._sizes.values())
size(s) == SumOver(s, DOMAIN s)

\* mutant of get_cache: a miss drops the least recently used entry
get_cache_MissDrops(c, name) ==
    IF name \in CacheNames(c)
    THEN Append(OdPop(c, name), Entry(name, OdLookup(c, name)))
    ELSE IF c = <<>> THEN c ELSE Tail(c)

\* mutant of get_cache: a hit leaves the entry where it is
get_cache_NoTouch(c, name) == c

\* utils.py:208-213  get: on a hit pop the entry and re-insert it last
\* (most recently used); on a miss raise KeyError and change nothing.
get_hit(c, name) == name \in CacheNames(c)
get_cache(c, name) ==
    IF name \in CacheNames(c)
    THEN Append(OdPop(c, name), Entry(name, OdLookup(c, name)))
    ELSE c

\* mutant of EvictLoop: the loop test forgets the cost of the new value
RECURSIVE EvictLoopForgetsCost(_, _, _, _, _)
EvictLoopForgetsCost(c, s, cost, max, evicted) ==
    IF size(s) > max /\ c # <<>>
    THEN EvictLoopForgetsCost(Tail(c), DictPop(s, Head(c).name), cost, max,
                              Append(evicted, Head(c).name))
    ELSE [cache |-> c, sizes |-> s, evicted |-> evicted, raised |-> FALSE]

\* utils.py:227-234  the eviction loop: while size + cost > max_size pop the
\* first (least recently used) entry and its recorded cost.  popitem on an
\* empty OrderedDict, and _sizes.pop of a name it does not hold, raise
\* KeyError and leave the state as it is at that statement.
RECURSIVE EvictLoop(_, _, _, _, _)
EvictLoop(c, s, cost, max, evicted) ==
    IF size(s) + cost > max
    THEN IF c = <<>>
         THEN [cache |-> c, sizes |-> s, evicted |-> evicted, raised |-> TRUE]
         ELSE LET rname == Head(c).name IN
              IF rname \notin DOMAIN s
              THEN [cache |-> Tail(c), sizes |-> s, evicted |-> evicted,
                    raised |-> TRUE]
              ELSE EvictLoop(Tail(c), DictPop(s, rname), cost, max,
                             Append(evicted, rname))
    ELSE [cache |-> c, sizes |-> s, evicted |-> evicted, raised |-> FALSE]

\* mutant of set: the prior entry of the name is removed after the eviction
\* loop, so that it is counted twice
set_CountsPrior(c, s, max, name, value) ==
    LET cost == get_item_size(value) IN
    IF cost >= max
    THEN [cache |-> c, sizes |-> s, evicted |-> <<>>, admitted |-> FALSE,
          raised |-> FALSE]
    ELSE LET r == EvictLoop(c, s, cost, max, <<>>)
         IN [cache |-> Append(OdPop(r.cache, name), Entry(name, value)),
             sizes |-> [k \in (DOMAIN r.sizes) \cup {name} |->
                           IF k = name THEN cost ELSE r.sizes[k]],
             evicted |-> r.evicted, admitted |-> TRUE, raised |-> FALSE]

\* mutant of set: the admission test is cost > max_size
set_AdmitsEqual(c, s, max, name, value) ==
    LET cost == get_item_size(value) IN
    IF cost > max
    THEN [cache |-> c, sizes |-> s, evicted |-> <<>>, admitted |-> FALSE,
          raised |-> FALSE]
    ELSE LET r == EvictLoop(OdPop(c, name), DictPop(s, name), cost, max, <<>>)
         IN [cache |-> Append(r.cache, Entry(name, value)),
             sizes |-> [k \in (DOMAIN r.sizes) \cup {name} |->
                           IF k = name THEN cost ELSE r.sizes[k]],
             evicted |-> r.evicted, admitted |-> TRUE, raised |-> FALSE]

\* utils.py:218-236  set(name, value): the resulting cache, the names it
\* evicted, whether the value was admitted and whether KeyError was raised.
set(c, s, max, name, value) ==
    LET cost == get_item_size(value) IN
    IF cost >= max
    THEN [cache |-> c, sizes |-> s, evicted |-> <<>>, admitted |-> FALSE,
          raised |-> FALSE]
    ELSE LET r == EvictLoop(OdPop(c, name), DictPop(s, name), cost, max, <<>>)
         IN IF r.raised
            THEN [cache |-> r.cache, sizes |-> r.sizes, evicted |-> r.evicted,
                  admitted |-> FALSE, raised |-> TRUE]
            ELSE [cache |-> Append(r.cache, Entry(name, value)),
                  sizes |-> [k \in (DOMAIN r.sizes) \cup {name} |->
                                IF k = name THEN cost ELSE r.sizes[k]],
                  evicted |-> r.evicted, admitted |-> TRUE, raised |-> FALSE]

(***************************************************************************)
(* History kept for the claims: the order of last access and of last       *)
(* insertion of the names the cache holds.                                 *)
(***************************************************************************)
SeqNames(q) == {q[i] : i \in DOMAIN q}
Without(q, names) == SelectSeq(q, LAMBDA n : n \notin names)
Touch(q, name) == Append(Without(q, {name}), name)
Pos(q, name) == CHOOSE i \in DOMAIN q : q[i] = name

NoOp == [op |-> "none"]

(***************************************************************************)
(* SpecCache: one caller, any sequence of get and set.                     *)
(***************************************************************************)
InitCache ==
    /\ today = 0
    /\ db = << >>
    /\ call = << >>
    /\ UtilIdle
    /\ _cache = <<>>
    /\ _sizes = << >>
    /\ max_size = MaxBudget
    /\ access_order = <<>>
    /\ insert_order = <<>>
    /\ last_op = NoOp
    /\ thr = << >>

\* cache.get(name), utils.py:208-213
Get(name) ==
    /\ _cache' = get_cache(_cache, name)
    /\ UNCHANGED <<_sizes, max_size, insert_order, thr, connVars, utilVars>>
    /\ access_order' = IF get_hit(_cache, name) THEN Touch(access_order, name)
                       ELSE access_order
    /\ last_op' = [op |-> "get", name |-> name, hit |-> get_hit(_cache, name),
                   ret |-> IF get_hit(_cache, name)
                           THEN <<OdLookup(_cache, name)>> ELSE <<>>]

\* cache.set(name, value), utils.py:218-236
Set(name, value) ==
    LET r == set(_cache, _sizes, max_size, name, value) IN
    /\ _cache' = r.cache
    /\ _sizes' = r.sizes
    /\ UNCHANGED <<max_size, thr, connVars, utilVars>>
    /\ access_order' = IF r.admitted
                       THEN Touch(Without(access_order, SeqNames(r.evicted)), name)
                       ELSE Without(access_order, SeqNames(r.evicted))
    /\ insert_order' = IF r.admitted
                       THEN Touch(Without(insert_order, SeqNames(r.evicted)), name)
                       ELSE Without(insert_order, SeqNames(r.evicted))
    /\ last_op' = [op |-> "set", name |-> name, value |-> value,
                   cost |-> get_item_size(value), evicted |-> r.evicted,
                   admitted |-> r.admitted, raised |-> r.raised,
                   had_prior |-> name \in CacheNames(_cache),
                   kept_older |->
                       \E e \in SeqNames(r.evicted) :
                           \E a \in CacheNames(r.cache) \ {name} :
                               /\ e \in SeqNames(insert_order)
                               /\ a \in SeqNames(insert_order)
                               /\ Pos(insert_order, a) < Pos(insert_order, e)]

NextCache ==
    \/ \E name \in TestNames : Get(name)
    \/ \E name \in TestNames, value \in TestValues : Set(name, value)

SpecCache == InitCache /\ [][NextCache]_vars

(***************************************************************************)
(* Claims about SizeLimitedCache, checked under SpecCache.                 *)
(***************************************************************************)
\* the recorded costs are those of the entries held
SizesMatchCache == DOMAIN _sizes = CacheNames(_cache)

\* C1: after every get and set, the cache's size -- the sum of the recorded
\* costs of the entries it holds -- is at most max_size.
C1_SizeWithinBudget ==
    /\ SizesMatchCache
    /\ size(_sizes) <= max_size

\* C1 witness: a set that had to evict and filled the budget exactly
C1_Witness ==
    /\ last_op.op = "set"
    /\ last_op.admitted
    /\ last_op.evicted # <<>>
    /\ size(_sizes) = max_size

\* C2: set(k, v) with cost(v) >= max_size changes nothing (entries, values,
\* recorded costs, recency order; a prior entry of k stays), and every set
\* with cost(v) < max_size is admitted, also after a rejected one.
C2_OversizeIsNoOp ==
    [][last_op'.op = "set" =>
         IF last_op'.cost >= max_size
         THEN /\ UNCHANGED <<_cache, _sizes, access_order>>
              /\ ~last_op'.admitted
         ELSE /\ last_op'.admitted
              /\ _cache'[Len(_cache')] = Entry(last_op'.name, last_op'.value)
              /\ _sizes'[last_op'.name] = last_op'.cost]_vars

\* C2 witness: an oversize set on a name that already had an entry
C2_Witness ==
    /\ last_op.op = "set"
    /\ last_op.cost >= max_size
    /\ last_op.had_prior
    /\ last_op.name \in CacheNames(_cache)

\* C3: whenever set evicts an entry, every entry that remains was accessed
\* (by a get that hit, or by an admitted set) more recently than the evicted
\* one.
C3_EvictsLeastRecentlyAccessed ==
    [][last_op'.op = "set" =>
         \A e \in SeqNames(last_op'.evicted) :
             /\ e \in SeqNames(access_order)
             /\ \A n \in CacheNames(_cache') \ {last_op'.name} :
                    /\ n \in SeqNames(access_order)
                    /\ Pos(access_order, e) < Pos(access_order, n)]_vars

\* C3 witness: set(a); set(b); get(a); set(c) -- the set evicted exactly one
\* entry, and an entry inserted before the evicted one is still held
C3_Witness ==
    /\ last_op.op = "set"
    /\ Len(last_op.evicted) = 1
    /\ last_op.kept_older

(***************************************************************************)
(* SpecThreads: two threads call get and set on one SizeLimitedCache.      *)
(* The class takes no lock (utils.py:174-236), so the threads interleave   *)
(* between the statements of get and set; one statement is one step.       *)
(***************************************************************************)
Threads == {"t1", "t2"}
ThreadNames == {<<"cs", "a", p>> : p \in {1, 2}}
\* the values the threads offer: every admissible positive cost
ThreadValues == {[i \in 1..n |-> <<0, 0>>] : n \in 1..MaxBudget}

Idle == [pc |-> "idle", op |-> "none", name |-> <<>>, value |-> <<>>,
         cost |-> 0, rname |-> <<>>]

\* self._cache[name] = value (utils.py:211, 235): a name the OrderedDict
\* already holds keeps its position, a new name goes last
OdStore(c, name, value) ==
    IF name \in CacheNames(c)
    THEN [i \in DOMAIN c |-> IF c[i].name = name THEN Entry(name, value)
                             ELSE c[i]]
    ELSE Append(c, Entry(name, value))

\* dict store, self._sizes[name] = size (utils.py:236)
DictStore(s, name, cost) ==
    [k \in (DOMAIN s) \cup {name} |-> IF k = name THEN cost ELSE s[k]]

InitThreads ==
    /\ today = 0
    /\ db = << >>
    /\ call = << >>
    /\ UtilIdle
    /\ _cache = <<>>
    /\ _sizes = << >>
    /\ max_size = MaxBudget + 1
    /\ access_order = <<>>
    /\ insert_order = <<>>
    /\ last_op = NoOp
    /\ thr = [t \in Threads |-> Idle]

Goto(t, pc) == thr' = [thr EXCEPT ![t].pc = pc]

\* a thread enters get(name)
TCallGet(t, name) ==
    /\ thr[t].pc = "idle"
    /\ thr' = [thr EXCEPT ![t] = [Idle EXCEPT !.pc = "get_test",
                                              !.op = "get", !.name = name]]
    /\ UNCHANGED <<cacheVars, histVars, connVars, utilVars>>

\* utils.py:209  if name in self._cache  (else raise KeyError, line 213)
TGetTest(t) ==
    /\ thr[t].pc = "get_test"
    /\ Goto(t, IF thr[t].name \in CacheNames(_cache) THEN "get_pop"
               ELSE "return")
    /\ UNCHANGED <<cacheVars, histVars, connVars, utilVars>>

\* utils.py:210  value = self._cache.pop(name); KeyError if it is gone
TGetPop(t) ==
    /\ thr[t].pc = "get_pop"
    /\ IF thr[t].name \in CacheNames(_cache)
       THEN /\ thr' = [thr EXCEPT ![t].pc = "get_store",
                                  ![t].value = OdLookup(_cache, thr[t].name)]
            /\ _cache' = OdPop(_cache, thr[t].name)
       ELSE /\ Goto(t, "return")
            /\ UNCHANGED _cache
    /\ UNCHANGED <<_sizes, max_size, histVars, connVars, utilVars>>

\* utils.py:211  self._cache[name] = value
TGetStore(t) ==
    /\ thr[t].pc = "get_store"
    /\ _cache' = OdStore(_cache, thr[t].name, thr[t].value)
    /\ Goto(t, "return")
    /\ UNCHANGED <<_sizes, max_size, histVars, connVars, utilVars>>

\* a thread enters set(name, value)
TCallSet(t, name, value) ==
    /\ thr[t].pc = "idle"
    /\ thr' = [thr EXCEPT ![t] = [Idle EXCEPT !.pc = "set_check",
                                              !.op = "set", !.name = name,
                                              !.value = value]]
    /\ UNCHANGED <<cacheVars, histVars, connVars, utilVars>>

\* utils.py:219-223  size = get_item_size(value); return if size >= max_size
TSetCheck(t) ==
    /\ thr[t].pc = "set_check"
    /\ thr' = [thr EXCEPT ![t].cost = get_item_size(thr[t].value),
                          ![t].pc = IF get_item_size(thr[t].value) >= max_size
                                    THEN "return" ELSE "set_pop_cache"]
    /\ UNCHANGED <<cacheVars, histVars, connVars, utilVars>>

\* utils.py:225  self._cache.pop(name, None)
TSetPopCache(t) ==
    /\ thr[t].pc = "set_pop_cache"
    /\ _cache' = OdPop(_cache, thr[t].name)
    /\ Goto(t, "set_pop_sizes")
    /\ UNCHANGED <<_sizes, max_size, histVars, connVars, utilVars>>

\* utils.py:226  self._sizes.pop(name, None)
TSetPopSizes(t) ==
    /\ thr[t].pc = "set_pop_sizes"
    /\ _sizes' = DictPop(_sizes, thr[t].name)
    /\ Goto(t, "set_while")
    /\ UNCHANGED <<_cache, max_size, histVars, connVars, utilVars>>

\* utils.py:227  while self.size + size > self.max_size
TSetWhile(t) ==
    /\ thr[t].pc = "set_while"
    /\ Goto(t, IF size(_sizes) + thr[t].cost > max_size THEN "set_popitem"
               ELSE "set_store")
    /\ UNCHANGED <<cacheVars, histVars, connVars, utilVars>>

\* utils.py:233  rname, _ = self._cache.popitem(last=False); KeyError when
\* the OrderedDict is empty
TSetPopItem(t) ==
    /\ thr[t].pc = "set_popitem"
    /\ IF _cache = <<>>
       THEN /\ Goto(t, "popitem_on_empty")
            /\ UNCHANGED _cache
       ELSE /\ thr' = [thr EXCEPT ![t].pc = "set_pop_rname",
                                  ![t].rname = Head(_cache).name]
            /\ _cache' = Tail(_cache)
    /\ UNCHANGED <<_sizes, max_size, histVars, connVars, utilVars>>

\* utils.py:234  self._sizes.pop(rname); KeyError when rname is not recorded
TSetPopRname(t) ==
    /\ thr[t].pc = "set_pop_rname"
    /\ IF thr[t].rname \in DOMAIN _sizes
       THEN /\ _sizes' = DictPop(_sizes, thr[t].rname)
            /\ Goto(t, "set_while")
       ELSE /\ UNCHANGED _sizes
            /\ Goto(t, "return")
    /\ UNCHANGED <<_cache, max_size, histVars, connVars, utilVars>>

\* utils.py:235  self._cache[name] = value
TSetStore(t) ==
    /\ thr[t].pc = "set_store"
    /\ _cache' = OdStore(_cache, thr[t].name, thr[t].value)
    /\ Goto(t, "set_record")
    /\ UNCHANGED <<_sizes, max_size, histVars, connVars, utilVars>>

\* utils.py:236  self._sizes[name] = size
TSetRecord(t) ==
    /\ thr[t].pc = "set_record"
    /\ _sizes' = DictStore(_sizes, thr[t].name, thr[t].cost)
    /\ Goto(t, "return")
    /\ UNCHANGED <<_cache, max_size, histVars, connVars, utilVars>>

\* the call returns (or its KeyError propagates) to the caller
TReturn(t) ==
    /\ thr[t].pc \in {"return", "popitem_on_empty"}
    /\ thr' = [thr EXCEPT ![t] = Idle]
    /\ UNCHANGED <<cacheVars, histVars, connVars, utilVars>>

NextThreads ==
    \/ \E t \in Threads, name \in ThreadNames : TCallGet(t, name)
    \/ \E t \in Threads : TGetTest(t)
    \/ \E t \in Threads : TGetPop(t)
    \/ \E t \in Threads : TGetStore(t)
    \/ \E t \in Threads, name \in ThreadNames, value \in ThreadValues :
          TCallSet(t, name, value)
    \/ \E t \in Threads : TSetCheck(t)
    \/ \E t \in Threads : TSetPopCache(t)
    \/ \E t \in Threads : TSetPopSizes(t)
    \/ \E t \in Threads : TSetWhile(t)
    \/ \E t \in Threads : TSetPopItem(t)
    \/ \E t \in Threads : TSetPopRname(t)
    \/ \E t \in Threads : TSetStore(t)
    \/ \E t \in Threads : TSetRecord(t)
    \/ \E t \in Threads : TReturn(t)

SpecThreads == InitThreads /\ [][NextThreads]_vars

\* no call is in progress
AllReturned == \A t \in Threads : thr[t].pc = "idle"

\* C4: for every interleaving of two threads' get and set, size never
\* exceeds max_size, the value map and the cost map hold the same names once
\* both calls have returned, and popitem is never run on an empty value map.
C4_ThreadsAreSerialized ==
    /\ size(_sizes) <= max_size
    /\ AllReturned => DOMAIN _sizes = CacheNames(_cache)
    /\ \A t \in Threads : thr[t].pc # "popitem_on_empty"

\* the three parts of C4, each refuted on its own
C4_SizeBound == size(_sizes) <= max_size
C4_SameNames == AllReturned => DOMAIN _sizes = CacheNames(_cache)
C4_NoPopOnEmpty == \A t \in Threads : thr[t].pc # "popitem_on_empty"

(***************************************************************************)
(* Spec: the archive connector (hdbpp.py) on the task loop.                *)
(*                                                                         *)
(* A day holds at most SecsPerDay * UsPerSec samples; the n-th sample      *)
(* written to day d is NthSample(d, n), so a day's series is determined by *)
(* its length and the series of different days share no sample.            *)
(***************************************************************************)
\* seconds per day and microseconds per second, scaled down
SecsPerDay == 2
UsPerSec == 2
\* asyncio.gather is given at most this many per-day futures at a time;
\* stands for the 50 of hdbpp.py:320, scaled down
ChunkSize == 2
\* SpecGather: the days of the longest window, enough for two chunks with
\* two periods in the second
GatherDays == 4

\* the driver fails at most this many statements in a run
MaxFailures == 2

\* two requests: the second is made when the first has returned, for the
\* same window
Calls == {1, 2}
NoAfter == -1

NthSample(d, n) == <<d * SecsPerDay + ((n - 1) \div UsPerSec), (n - 1) % UsPerSec>>
DaySeries(d, n) == [i \in 1..n |-> NthSample(d, i)]
data_time(smp) == smp[1]

Min(S) == CHOOSE x \in S : \A y \in S : x <= y
Max(S) == CHOOSE x \in S : \A y \in S : y <= x

\* pd.concat(frames, ignore_index=True): the frames' rows, in list order
RECURSIVE concat(_)
concat(frames) ==
    IF frames = <<>> THEN <<>> ELSE Head(frames) \o concat(Tail(frames))

\* hdbpp.py:342  the cache key of a period
Key(attr, period) == <<"cs", attr, period>>

\* mutant of Periods: the last day is left out
Periods_Exclusive(start_date, end_date) ==
    [d \in 1..(IF end_date >= start_date THEN end_date - start_date ELSE 0)
        |-> start_date + d - 1]

\* hdbpp.py:305-308  the periods of a window, given its first and last date
Periods(start_date, end_date) ==
    [d \in 1..(IF end_date >= start_date THEN end_date - start_date + 1 ELSE 0)
        |-> start_date + d - 1]

\* mutant of Query: data_after reads the rows with data_time > after
Query_StrictAfter(store, period, after) ==
    IF after = NoAfter THEN store[period]
    ELSE SelectSeq(store[period], LAMBDA smp : data_time(smp) > after)

\* hdbpp.py:198-208  the prepared reads data / data_after, run by the
\* database: every row of the period, or those with data_time >= after
Query(store, period, after) ==
    IF after = NoAfter THEN store[period]
    ELSE SelectSeq(store[period], LAMBDA smp : data_time(smp) >= after)

\* a per-day future.  failed_at is history: the rank of the fetch among the
\* failed ones, 0 for a fetch that has not failed.  state: "pending" (statement submitted to the driver),
\* "done" (completed on the loop), "stuck" (never completed).  cb names the done
\* callback registered on the driver future: "cache" (hdbpp.py:354-359),
\* "merge" (hdbpp.py:392-395) or "none".
\* aiocassandra.py:80-87 execute_future, hdbpp.py:399-411
_get_attribute_period(period, after, cb, truncated) ==
    [period |-> period, state |-> "pending", ok |-> TRUE, data |-> <<>>,
     after |-> after, cb |-> cb, truncated |-> truncated, hit |-> FALSE,
     failed_at |-> 0]

\* hdbpp.py:346-348  a future completed at once with the cached value
ReadyFuture(period, result) ==
    [period |-> period, state |-> "done", ok |-> TRUE, data |-> result,
     after |-> NoAfter, cb |-> "none", truncated |-> <<>>, hit |-> TRUE,
     failed_at |-> 0]

\* hdbpp.py:386-387  the latest data_time of the cached series, cut to the
\* whole second (data_time holds whole seconds, the rest is in data_time_us)
latest_s(cached) == Max({data_time(cached[i]) : i \in DOMAIN cached})

\* mutant of Truncated: the rows of the latest second are kept
Truncated_Inclusive(cached, latest) ==
    SelectSeq(cached, LAMBDA smp : data_time(smp) <= latest)

\* hdbpp.py:388  the cached rows before the latest second
Truncated(cached, latest) ==
    SelectSeq(cached, LAMBDA smp : data_time(smp) < latest)

\* hdbpp.py:362-397  _get_attribute_period_today: the cache after the
\* lookup and the future returned
_get_attribute_period_today(c, attr, td) ==
    IF ~get_hit(c, Key(attr, td))
    THEN [cache |-> c,
          fut |-> _get_attribute_period(td, NoAfter, "none", <<>>)]
    ELSE LET cached == OdLookup(c, Key(attr, td)) IN
         IF cached = <<>>
         THEN [cache |-> get_cache(c, Key(attr, td)),
               fut |-> _get_attribute_period(td, NoAfter, "none", <<>>)]
         ELSE [cache |-> get_cache(c, Key(attr, td)),
               fut |-> _get_attribute_period(
                           td, latest_s(cached), "merge",
                           Truncated(cached, latest_s(cached)))]

\* mutant of CachesPeriod: the done callback is registered for every period
CachesPeriodAlways(period, td) == TRUE

\* mutant of CachesPeriod: no period's result is cached
CachesPeriodNever(period, td) == FALSE

\* mutant of CachesPeriod: yesterday's result is not cached
CachesPeriod_BeforeYesterday(period, td) == period < td - 1

\* hdbpp.py:353  the result is cached only for a period before today
CachesPeriod(period, td) == period < td

\* hdbpp.py:328-360  get_attribute_period: the cache after the lookup and
\* the future returned
get_attribute_period(c, attr, period, td) ==
    IF period = td
    THEN _get_attribute_period_today(c, attr, td)
    ELSE IF get_hit(c, Key(attr, period))
         THEN [cache |-> get_cache(c, Key(attr, period)),
               fut |-> ReadyFuture(period, OdLookup(c, Key(attr, period)))]
         ELSE [cache |-> c,
               fut |-> _get_attribute_period(
                           period, NoAfter,
                           IF CachesPeriod(period, td) THEN "cache" ELSE "none",
                           <<>>)]

\* hdbpp.py:316-317  period_queries: get_attribute_period for every period,
\* in order, each on the cache the previous lookup left
RECURSIVE period_queries(_, _, _, _, _, _)
period_queries(c, attr, periods, td, i, futs) ==
    IF i > Len(periods) THEN [cache |-> c, futs |-> futs]
    ELSE LET r == get_attribute_period(c, attr, periods[i], td) IN
         period_queries(r.cache, attr, periods, td, i + 1, Append(futs, r.fut))

\* hdbpp.py:312-313  chunker: the indices of the chunk that starts at k
Chunk(futs, k) == k..(IF k + ChunkSize - 1 < Len(futs) THEN k + ChunkSize - 1
                      ELSE Len(futs))

Completed(fut) == fut.state = "done"
Failed(fut) == fut.state = "done" /\ ~fut.ok

GatherIdle == [st |-> "none", err |-> 0]

\* mutant of gather: of the children found failed, the last one's exception
\* is raised
gather_LastFailed(futs, k) ==
    LET failed == {i \in Chunk(futs, k) : Failed(futs[i])} IN
    IF failed # {} THEN [st |-> "err", err |-> Max(failed)]
    ELSE IF \A i \in Chunk(futs, k) : Completed(futs[i])
         THEN [st |-> "ok", err |-> 0]
         ELSE [st |-> "waiting", err |-> 0]

\* asyncio.gather(*chunk), hdbpp.py:321: succeeds when every child has a
\* result; fails with the exception of the first child to fail, which for
\* children that had already failed when gather was called is the first of
\* them in argument order
gather(futs, k) ==
    LET failed == {i \in Chunk(futs, k) : Failed(futs[i])} IN
    IF failed # {} THEN [st |-> "err", err |-> Min(failed)]
    ELSE IF \A i \in Chunk(futs, k) : Completed(futs[i])
         THEN [st |-> "ok", err |-> 0]
         ELSE [st |-> "waiting", err |-> 0]

\* mutant of chunk_results: the results are taken last period first
chunk_results_Reversed(futs, k) ==
    LET idx == Chunk(futs, k) IN
    [j \in 1..Cardinality(idx) |-> futs[Max(idx) - j + 1].data]

\* hdbpp.py:321  chunk_results: the children's results in the chunk's order
chunk_results(futs, k) ==
    [j \in 1..Cardinality(Chunk(futs, k)) |-> futs[k + j - 1].data]

\* mutant of extend: the chunk's results are put in front
extend_Prepend(total_results, results) == results \o total_results

\* hdbpp.py:322  total_results.extend(chunk_results)
extend(total_results, results) == total_results \o results

\* the fetches the driver has failed so far
FailedFetches ==
    UNION {{<<b, j>> : j \in {k \in DOMAIN call[b].futs :
                                 /\ call[b].futs[k].state # "pending"
                                 /\ ~call[b].futs[k].ok}} : b \in Calls}

\* a get_attribute_data call.  History fields: today0 (the date when the call
\* was made), prior (the calls that had returned by then), out_of_order, and
\* awaited_from (how many fetches had failed when the chunk being awaited was
\* handed to gather).
NoCall ==
    [pc |-> "idle", attr |-> "", start_date |-> 0, end_date |-> 0,
     periods |-> <<>>, futs |-> <<>>, chunk |-> 0, gathered |-> GatherIdle,
     total_results |-> <<>>, ret |-> [kind |-> "pending"],
     today0 |-> 0, prior |-> {}, out_of_order |-> FALSE, awaited_from |-> 0]

Init ==
    /\ _cache = <<>>
    /\ _sizes = << >>
    /\ max_size = MaxBudget
    /\ access_order = <<>>
    /\ insert_order = <<>>
    /\ last_op = NoOp
    /\ thr = << >>
    /\ today = MaxDay - 1
    /\ db = [d \in Days |-> IF d < MaxDay - 1 THEN DaySeries(d, MaxBudget - 1)
                            ELSE <<>>]
    /\ call = [c \in Calls |-> NoCall]
    /\ UtilIdle

\* the archiver stores one more sample for today
DbWrite ==
    /\ Len(db[today]) < MaxRows
    /\ db' = [db EXCEPT ![today] = Append(@, NthSample(today, Len(@) + 1))]
    /\ UNCHANGED <<cacheVars, histVars, thr, utilVars, today, call>>

\* the local date changes
Midnight ==
    /\ today < MaxDay
    /\ today' = today + 1
    /\ UNCHANGED <<cacheVars, histVars, thr, utilVars, db, call>>

\* hdbpp.py:272-325  get_attribute_data up to its first await: derive the
\* periods, request every period, gather the first chunk; with no period
\* the coroutine returns None.
Start(c, attr, start_date, end_date) ==
    LET periods == Periods(start_date, end_date)
        r == period_queries(_cache, attr, periods, today, 1, <<>>)
    IN
    /\ call[c].pc = "idle"
    /\ \A b \in Calls : b < c => /\ call[b].pc = "done"
                                  /\ call[b].start_date = start_date
                                  /\ call[b].end_date = end_date
    /\ _cache' = r.cache
    /\ call' = [call EXCEPT ![c] =
          [NoCall EXCEPT
             !.pc = IF periods = <<>> THEN "done" ELSE "gather",
             !.attr = attr, !.start_date = start_date, !.end_date = end_date,
             !.periods = periods, !.futs = r.futs,
             !.chunk = IF periods = <<>> THEN 0 ELSE 1,
             !.gathered = IF periods = <<>> THEN GatherIdle
                          ELSE gather(r.futs, 1),
             !.ret = IF periods = <<>> THEN [kind |-> "None"]
                     ELSE [kind |-> "pending"],
             !.today0 = today,
             !.awaited_from = Cardinality(FailedFetches),
             !.prior = {b \in Calls : call[b].pc = "done"}]]
    /\ UNCHANGED <<_sizes, max_size, histVars, thr, utilVars, today, db>>

\* mutant of Outcome: the statement reads the rows of the current day
Outcome_ReadsToday(f, store, ok) ==
    [f EXCEPT !.ok = ok,
              !.data = IF ok THEN Query(store, today, f.after) ELSE <<>>]

\* the driver future f with the outcome the driver reports: the rows read
\* (aiocassandra.py:62-73) or an error (aiocassandra.py:76-77)
Outcome(f, store, ok) ==
    [f EXCEPT !.ok = ok,
              !.data = IF ok THEN Query(store, f.period, f.after) ELSE <<>>]

\* the future a period's awaiter sees once the driver future f completes and
\* its done callback has run:
\*   hdbpp.py:354-359 ("cache") and no callback: the driver future itself;
\*   hdbpp.py:391-395 ("merge"): the outer future, given truncated ++ result;
\*     fut_.result() raises in the callback when the fetch failed, and the
\*     outer future is then never completed.
AfterCallbacks(f) ==
    IF f.cb = "merge"
    THEN IF f.ok THEN [f EXCEPT !.state = "done",
                                !.data = concat(<<f.truncated, f.data>>)]
         ELSE [f EXCEPT !.state = "stuck"]
    ELSE [f EXCEPT !.state = "done"]

\* mutant of CacheCallbackWrites: the callback stores without testing
\* fut_.exception()
CacheCallbackWritesAlways(f) == f.cb = "cache"

\* hdbpp.py:354-359  the done callback stores the result unless the future
\* holds an exception
CacheCallbackWrites(f) == f.cb = "cache" /\ f.ok

\* A fetch completes.  The driver reports the outcome of the statement
\* (aiocassandra.py:62-77) and hands it to the loop, which runs
\* afut.set_result / afut.set_exception and then the future's done callbacks
\* in the order they were added: the cache update (hdbpp.py:354-359), then
\* gather's.
FetchCompletes(c, i, ok) ==
    LET f0 == Outcome(call[c].futs[i], db, ok)
        f == [f0 EXCEPT !.failed_at =
                 IF ok THEN 0 ELSE Cardinality(FailedFetches) + 1]
        g == AfterCallbacks(f)
        futs1 == [call[c].futs EXCEPT ![i] = g]
        w == set(_cache, _sizes, max_size, Key(call[c].attr, f.period), f.data)
        writes == CacheCallbackWrites(f)
        awaited == /\ call[c].pc = "gather"
                   /\ call[c].gathered.st = "waiting"
                   /\ i \in Chunk(call[c].futs, call[c].chunk)
    IN
    /\ i \in DOMAIN call[c].futs
    /\ f.state = "pending"
    /\ ok \/ Cardinality(FailedFetches) < MaxFailures
    /\ _cache' = IF writes THEN w.cache ELSE _cache
    /\ _sizes' = IF writes THEN w.sizes ELSE _sizes
    /\ call' = [call EXCEPT
          ![c].futs = futs1,
          ![c].out_of_order =
              @ \/ \E j \in 1..(i - 1) : ~Completed(call[c].futs[j]),
          ![c].gathered =
              IF ~awaited THEN @
              ELSE IF Failed(g) THEN [st |-> "err", err |-> i]
              ELSE IF \A j \in Chunk(futs1, call[c].chunk) : Completed(futs1[j])
                   THEN [st |-> "ok", err |-> 0]
                   ELSE @]
    /\ UNCHANGED <<max_size, histVars, thr, utilVars, today, db>>

\* hdbpp.py:320-325  the coroutine resumes after gather: an exception
\* propagates to the caller; otherwise the chunk's results extend
\* total_results and the next chunk is gathered, or the concatenation of
\* total_results is returned.
Resume(c) ==
    LET k == call[c].chunk
        total == extend(call[c].total_results, chunk_results(call[c].futs, k))
        next == k + ChunkSize
    IN
    /\ call[c].pc = "gather"
    /\ call[c].gathered.st \in {"ok", "err"}
    /\ call' = [call EXCEPT ![c] =
          IF call[c].gathered.st = "err"
          THEN [@ EXCEPT !.pc = "done",
                         !.ret = [kind |-> "error",
                                  err |-> call[c].gathered.err]]
          ELSE IF next > Len(call[c].futs)
               THEN [@ EXCEPT !.pc = "done", !.total_results = total,
                              !.gathered = GatherIdle,
                              !.ret = [kind |-> "series",
                                       value |-> concat(total)]]
               ELSE [@ EXCEPT !.total_results = total, !.chunk = next,
                              !.awaited_from = Cardinality(FailedFetches),
                              !.gathered = gather(call[c].futs, next)]]
    /\ UNCHANGED <<cacheVars, histVars, thr, utilVars, today, db>>

Next ==
    \/ DbWrite
    \/ Midnight
    \/ \E c \in Calls, attr \in Attrs, d0 \in Days, d1 \in Days :
          Start(c, attr, d0, d1)
    \/ \E c \in Calls, i \in 1..MaxDay, ok \in BOOLEAN : FetchCompletes(c, i, ok)
    \/ \E c \in Calls : Resume(c)

Spec == Init /\ [][Next]_vars

(***************************************************************************)
(* SpecGather: one request over a window of up to GatherDays days, so that *)
(* it is gathered in more than one chunk.  The date does not change and    *)
(* the archive is not written to meanwhile.                                *)
(***************************************************************************)
GatherPeriods == 1..GatherDays

InitGather ==
    /\ _cache = <<>>
    /\ _sizes = << >>
    /\ max_size = MaxBudget
    /\ access_order = <<>>
    /\ insert_order = <<>>
    /\ last_op = NoOp
    /\ thr = << >>
    /\ today = GatherDays
    /\ db = [d \in GatherPeriods |-> DaySeries(d, 1)]
    /\ call = [c \in Calls |-> NoCall]
    /\ UtilIdle

NextGather ==
    \/ \E attr \in Attrs, d0 \in GatherPeriods :
          Start(1, attr, d0, GatherDays)
    \/ \E c \in Calls, i \in GatherPeriods, ok \in BOOLEAN :
          FetchCompletes(c, i, ok)
    \/ \E c \in Calls : Resume(c)

SpecGather == InitGather /\ [][NextGather]_vars

(***************************************************************************)
(* SpecToday: one request whose window ends today, made when the cache may *)
(* hold a series for today.  The archive holds the set S of today's        *)
(* samples; the cached series holds a subset C of S (the samples the       *)
(* archive held when C was read; the archive has only gained samples       *)
(* since).  A gained sample may carry any time of the day.                 *)
(***************************************************************************)
TodaySamples(d) == {NthSample(d, n) : n \in 1..(SecsPerDay * UsPerSec)}

\* the clustering order of the archive: data_time, then data_time_us
Before(s, t) == s[1] < t[1] \/ (s[1] = t[1] /\ s[2] <= t[2])

\* the rows of S as the archive returns them
RECURSIVE SeriesOf(_)
SeriesOf(S) ==
    IF S = {} THEN <<>>
    ELSE LET m == CHOOSE s \in S : \A t \in S : Before(s, t)
         IN <<m>> \o SeriesOf(S \ {m})

SamplesOf(series) == {series[i] : i \in DOMAIN series}

InitToday ==
    /\ max_size = MaxRows + 2
    /\ today = MaxDay
    /\ \E S \in SUBSET TodaySamples(MaxDay) :
          /\ Cardinality(S) <= MaxRows
          /\ db = [d \in Days |-> IF d < MaxDay THEN DaySeries(d, 1)
                                  ELSE SeriesOf(S)]
          /\ \/ /\ _cache = <<>>
                /\ _sizes = << >>
                /\ access_order = <<>>
                /\ insert_order = <<>>
             \/ \E C \in SUBSET S :
                   /\ _cache = <<Entry(Key("a", MaxDay), SeriesOf(C))>>
                   /\ _sizes = (Key("a", MaxDay) :> get_item_size(SeriesOf(C)))
                   /\ access_order = <<Key("a", MaxDay)>>
                   /\ insert_order = <<Key("a", MaxDay)>>
    /\ last_op = NoOp
    /\ thr = << >>
    /\ call = [c \in Calls |-> NoCall]
    /\ UtilIdle

NextToday ==
    \/ \E attr \in Attrs, d0 \in Days : Start(1, attr, d0, MaxDay)
    \/ \E c \in Calls, i \in Days, ok \in BOOLEAN : FetchCompletes(c, i, ok)
    \/ \E c \in Calls : Resume(c)

SpecToday == InitToday /\ [][NextToday]_vars

(***************************************************************************)
(* SpecPeriods: the periods of a window (hdbpp.py:291-308).  A time is     *)
(* [aware, t]: with a zone, t is the instant in seconds since the epoch    *)
(* (UTC); without, t is the wall-clock reading, which the code takes as    *)
(* local time.  zone is the local zone's offset from UTC in seconds.       *)
(***************************************************************************)
\* the largest offset of the local zone, either way
MaxOffset == 1
Times == [aware : BOOLEAN, t : SecsPerDay..((MaxDay + 1) * SecsPerDay - 1)]
Zones == (0 - MaxOffset)..MaxOffset

\* hdbpp.py:298-301, 305-306  the local date of a time: a naive time gets the
\* local zone attached (replace), an aware one is converted (astimezone)
local_date(tm, zone) ==
    IF tm.aware THEN (tm.t + zone) \div SecsPerDay ELSE tm.t \div SecsPerDay

\* the instant a time denotes
Instant(tm, zone) == IF tm.aware THEN tm.t ELSE tm.t - zone

InitPeriods ==
    /\ _cache = <<>>
    /\ _sizes = << >>
    /\ max_size = MaxBudget
    /\ access_order = <<>>
    /\ insert_order = <<>>
    /\ last_op = NoOp
    /\ thr = << >>
    /\ today = 0
    /\ db = << >>
    /\ call = << >>
    /\ memo = << >>
    /\ retry = << >>
    /\ MoreIdle
    /\ \E t0 \in Times, t1 \in Times, z \in Zones :
          win = [start_time |-> t0, end_time |-> t1, zone |-> z,
                 derived |-> FALSE, periods |-> <<>>]

\* hdbpp.py:303-308
DerivePeriods ==
    /\ ~win.derived
    /\ win' = [win EXCEPT
                  !.derived = TRUE,
                  !.periods = Periods(local_date(win.start_time, win.zone),
                                      local_date(win.end_time, win.zone))]
    /\ UNCHANGED <<cacheVars, histVars, thr, connVars, memo, retry, moreVars>>

NextPeriods == DerivePeriods

SpecPeriods == InitPeriods /\ [][NextPeriods]_vars

MaxClock == 4
\* ttl ranges over 0..MaxTtl
MaxTtl == 2
\* the producer is run at most MaxRuns times
MaxRuns == 3

\* mutant of fresh: the value expires when it is ttl seconds old
fresh_ExpiresAtTtl(m, now) ==
    /\ m.cache # <<>>
    /\ ~(m.ttl > 0 /\ now - m.cache[2] >= m.ttl)

\* utils.py:41-45  the cached value is returned: there is one, and it is not
\* older than ttl (a ttl of 0 never expires)
fresh(m, now) ==
    /\ m.cache # <<>>
    /\ ~(m.ttl > 0 /\ now - m.cache[2] > m.ttl)

\* mutant of produced: a raising producer leaves its error in the cache
produced_CachesError(m, ok) ==
    [m EXCEPT !.pc = "idle",
              !.runs = @ + 1,
              !.cache = IF ok THEN <<m.runs + 1, m.now>> ELSE <<0, m.now>>,
              !.ret = IF ok THEN [kind |-> "value", value |-> m.runs + 1]
                      ELSE [kind |-> "error", value |-> 0],
              !.err_at = IF ok THEN @ ELSE m.now]

\* utils.py:47-49  the producer returns and (value, now) is stored, or it
\* raises and the exception leaves wrapped_f before the store
produced(m, ok) ==
    [m EXCEPT !.pc = "idle",
              !.runs = @ + 1,
              !.cache = IF ok THEN <<m.runs + 1, m.now>> ELSE @,
              !.ret = IF ok THEN [kind |-> "value", value |-> m.runs + 1]
                      ELSE [kind |-> "error", value |-> 0],
              !.err_at = IF ok THEN @ ELSE m.now]

InitMemo ==
    /\ _cache = <<>>
    /\ _sizes = << >>
    /\ max_size = MaxBudget
    /\ access_order = <<>>
    /\ insert_order = <<>>
    /\ last_op = NoOp
    /\ thr = << >>
    /\ today = 0
    /\ db = << >>
    /\ call = << >>
    /\ win = << >>
    /\ retry = << >>
    /\ MoreIdle
    /\ \E ttl \in 0..MaxTtl :
          memo = [ttl |-> ttl, clock |-> 0, cache |-> <<>>, pc |-> "idle",
                  now |-> 0, runs |-> 0, ret |-> [kind |-> "none", value |-> 0],
                  err_at |-> 0 - 1]

\* time passes
Tick ==
    /\ memo.clock < MaxClock
    /\ memo' = [memo EXCEPT !.clock = @ + 1]
    /\ UNCHANGED <<cacheVars, histVars, thr, connVars, win, retry, moreVars>>

\* utils.py:39-47  wrapped_f up to the return of the cached value or the
\* call of the producer
MemoCall ==
    /\ memo.pc = "idle"
    /\ fresh(memo, memo.clock) \/ memo.runs < MaxRuns
    /\ memo' = IF fresh(memo, memo.clock)
               THEN [memo EXCEPT !.now = memo.clock,
                                 !.ret = [kind |-> "value",
                                          value |-> memo.cache[1]]]
               ELSE [memo EXCEPT !.now = memo.clock, !.pc = "producing"]
    /\ UNCHANGED <<cacheVars, histVars, thr, connVars, win, retry, moreVars>>

\* utils.py:47-49
ProducerReturns(ok) ==
    /\ memo.pc = "producing"
    /\ memo' = produced(memo, ok)
    /\ UNCHANGED <<cacheVars, histVars, thr, connVars, win, retry, moreVars>>

NextMemo ==
    \/ Tick
    \/ MemoCall
    \/ \E ok \in BOOLEAN : ProducerReturns(ok)

SpecMemo == InitMemo /\ [][NextMemo]_vars

\* a call is made in this step
MemoCalled == memo.pc = "idle" /\ memo'.clock = memo.clock /\ memo' # memo
\* the call made in this step runs the producer
MemoRuns == MemoCalled /\ memo'.pc = "producing"

\* C17: with ttl > 0, a call made within ttl seconds of the last computation
\* returns its value without running the producer; the first call made
\* after ttl seconds runs the producer, once, and returns the new value.
C17_OneRunPerTtl ==
    [][/\ (MemoCalled /\ memo.ttl > 0 /\ memo.cache # <<>>) =>
              IF memo.clock - memo.cache[2] <= memo.ttl
              THEN /\ ~MemoRuns
                   /\ memo'.runs = memo.runs
                   /\ memo'.ret = [kind |-> "value", value |-> memo.cache[1]]
              ELSE MemoRuns
       /\ (memo.pc = "producing" /\ memo'.pc = "idle") =>
              /\ memo'.runs = memo.runs + 1
              /\ memo'.ret.kind = "value" =>
                     /\ memo'.ret.value = memo'.runs
                     /\ memo'.cache = <<memo'.ret.value, memo.now>>]_vars

\* C17 witness: a value computed, served from the cache within the ttl, and
\* computed again by a call made after the ttl
C17_Witness ==
    /\ memo.ttl > 0
    /\ memo.pc = "idle"
    /\ memo.runs = 2
    /\ memo.ret = [kind |-> "value", value |-> 2]
    /\ memo.cache = <<2, memo.now>>
    /\ memo.now > memo.ttl
    /\ memo.err_at = 0 - 1

\* C18 as stated: the call whose producer raised gets the error, and the
\* producer is not run again by a call made within ttl seconds of it.
C18_NoRunAfterErrorWithinTtl ==
    [][/\ (memo.pc = "producing" /\ memo'.pc = "idle") =>
              memo'.ret.kind \in {"value", "error"}
       /\ (/\ MemoCalled
           /\ memo.ret.kind = "error"
           /\ memo.ttl > 0
           /\ memo.clock - memo.err_at <= memo.ttl)
          => ~MemoRuns]_vars

\* C18 amended: the call whose producer raised gets the error and nothing
\* is stored; the next call runs the producer again, however little time
\* has passed.
C18_Amended ==
    [][/\ (memo.pc = "producing" /\ memo'.pc = "idle"
               /\ memo'.ret.kind = "error") =>
              memo'.cache = memo.cache
       /\ (MemoCalled /\ memo.ret.kind = "error") => MemoRuns]_vars

\* C18 witness: the producer raised, and a call made in the same second
\* runs it again
C18_Witness ==
    /\ memo.pc = "producing"
    /\ memo.ret.kind = "error"
    /\ memo.ttl > 0
    /\ memo.now = memo.err_at

(***************************************************************************)
(* SpecRetry: one call of a function f wrapped by retry_future             *)
(* (utils.py:53-93).  f returns a future; the k-th invocation's future     *)
(* completes with the result k or with the exception k.                    *)
(*   retry.N            the max_retries the decorator was given            *)
(*   retry.max_retries  self.max_retries                                   *)
(*   retry.passed       history: the arguments f got at each invocation    *)
(*   retry.attempts     history: the outcome of each completed invocation  *)
(*   retry.sets         history: how often the outer future was completed  *)
(***************************************************************************)
\* the largest max_retries given to the decorator
MaxN == 6
\* utils.py:69  self.max_retries = 5
HardRetries == 5

RetryArgs == {"q1", "q2"}
RetryKwargs == {"none", "timeout"}

\* utils.py:68-69  __init__(self, max_retries)
retry_future(max_retries) ==
    [N |-> max_retries, max_retries |-> HardRetries, pc |-> "idle",
     args |-> "", kwargs |-> "", retries |-> 0, passed |-> <<>>,
     attempts |-> <<>>, outer |-> [state |-> "none", value |-> 0],
     sets |-> 0]

\* f(*args), utils.py:73 and 86: the keyword arguments are not passed
invoke(r) == [r EXCEPT !.passed = Append(@, [args |-> r.args,
                                             kwargs |-> "none"])]

\* mutant of resolve_or_retry: f is run once more after a success
resolve_or_retry_RunsOn(r, ok) ==
    LET r1 == [r EXCEPT !.attempts = Append(@, ok)]
        k == Len(r.passed)
    IN IF ok
       THEN invoke([r1 EXCEPT !.pc = "done",
                             !.outer = [state |-> "result", value |-> k],
                             !.sets = @ + 1])
       ELSE IF r.retries + 1 < r.max_retries
            THEN invoke([r1 EXCEPT !.retries = @ + 1])
            ELSE [r1 EXCEPT !.retries = @ + 1, !.pc = "done",
                            !.outer = [state |-> "exception", value |-> k],
                            !.sets = @ + 1]

\* utils.py:77-89  resolve_or_retry, the done callback of the k-th inner
\* future, k = Len(r.passed)
resolve_or_retry(r, ok) ==
    LET r1 == [r EXCEPT !.attempts = Append(@, ok)]
        k == Len(r.passed)
    IN IF ok
       THEN [r1 EXCEPT !.pc = "done",
                       !.outer = [state |-> "result", value |-> k],
                       !.sets = @ + 1]
       ELSE IF r.retries + 1 < r.max_retries
            THEN invoke([r1 EXCEPT !.retries = @ + 1])
            ELSE [r1 EXCEPT !.retries = @ + 1, !.pc = "done",
                            !.outer = [state |-> "exception", value |-> k],
                            !.sets = @ + 1]

InitRetry ==
    /\ _cache = <<>>
    /\ _sizes = << >>
    /\ max_size = MaxBudget
    /\ access_order = <<>>
    /\ insert_order = <<>>
    /\ last_op = NoOp
    /\ thr = << >>
    /\ today = 0
    /\ db = << >>
    /\ call = << >>
    /\ win = << >>
    /\ memo = << >>
    /\ MoreIdle
    /\ \E n \in 1..MaxN : retry = retry_future(n)

\* utils.py:72-76, 91-92  wrapped_f: the first invocation, the outer future
WrappedCall(args, kwargs) ==
    /\ retry.pc = "idle"
    /\ retry' = invoke([retry EXCEPT !.pc = "waiting", !.args = args,
                                     !.kwargs = kwargs,
                                     !.outer = [state |-> "pending",
                                                value |-> 0]])
    /\ UNCHANGED <<cacheVars, histVars, thr, connVars, win, memo, moreVars>>

\* the inner future of the latest invocation completes and its done
\* callback runs
InnerCompletes(ok) ==
    /\ retry.pc = "waiting"
    /\ retry' = resolve_or_retry(retry, ok)
    /\ UNCHANGED <<cacheVars, histVars, thr, connVars, win, memo, moreVars>>

NextRetry ==
    \/ \E args \in RetryArgs, kwargs \in RetryKwargs : WrappedCall(args, kwargs)
    \/ \E ok \in BOOLEAN : InnerCompletes(ok)

SpecRetry == InitRetry /\ [][NextRetry]_vars

Invocations == Len(retry.passed)

\* C19: a function decorated with retry_future(max_retries=N) is invoked at
\* most N times for one call, and when all N attempts fail the outer future
\* completes with the exception of the N-th attempt.
C19_LimitIsConfigurable ==
    /\ Invocations <= retry.N
    /\ (Len(retry.attempts) >= retry.N
           /\ \A k \in 1..retry.N : ~retry.attempts[k])
       => retry.outer = [state |-> "exception", value |-> retry.N]

\* C20: if attempt k is the first to succeed, and k is within the limit the
\* adapter applies, the outer future is completed exactly once, with the
\* result of attempt k, after exactly k invocations, and f is not invoked
\* again.
C20_FirstSuccessForwarded ==
    \A k \in DOMAIN retry.attempts :
        (retry.attempts[k] /\ k <= retry.max_retries) =>
            /\ k = Len(retry.attempts)
            /\ Invocations = k
            /\ retry.pc = "done"
            /\ retry.outer = [state |-> "result", value |-> k]
            /\ retry.sets = 1

\* C20 witness: two failed attempts, then a success
C20_Witness ==
    /\ retry.attempts = <<FALSE, FALSE, TRUE>>
    /\ retry.outer = [state |-> "result", value |-> 3]
    /\ Invocations = 3

(***************************************************************************)
(* Claims about the connector, checked under Spec.                         *)
(***************************************************************************)
Futs(c) == call[c].futs
\* the periods for which a call submitted a statement to the database
Fetched(c) == {Futs(c)[i].period : i \in {j \in DOMAIN Futs(c) : ~Futs(c)[j].hit}}
\* the per-day fetches of a call that are submitted and not completed
InFlight(c) == {i \in DOMAIN Futs(c) : Futs(c)[i].state = "pending"}
\* fetch i of call c completes in this step
Completes(c, i) ==
    /\ i \in DOMAIN Futs(c)
    /\ Futs(c)[i].state = "pending"
    /\ call'[c].futs[i].state # "pending"
\* call c starts in this step
Starts(c) == call[c].pc = "idle" /\ call'[c].pc # "idle"
Returned(c) == call[c].pc = "done" /\ call[c].ret.kind = "series"

\* C5: during one get_attribute_data call, the per-day fetches submitted and
\* not yet completed never outnumber the chunk size.
C5_FanOutBounded ==
    \A c \in Calls : Cardinality(InFlight(c)) <= ChunkSize

\* C6: the series get_attribute_data returns is the concatenation of the
\* per-day results in the calendar order of their periods, whatever the
\* order in which the fetches completed.
C6_ConcatInCalendarOrder ==
    \A c \in Calls :
        Returned(c) =>
            /\ \A i \in DOMAIN Futs(c) : Futs(c)[i].period = call[c].periods[i]
            /\ \A i, j \in DOMAIN Futs(c) :
                   i < j => call[c].periods[i] < call[c].periods[j]
            /\ call[c].ret.value =
                   concat([i \in DOMAIN Futs(c) |-> Futs(c)[i].data])

\* C6 witness: a call returned two non-empty per-day results whose fetches
\* completed out of calendar order
C6_Witness ==
    \E c \in Calls :
        /\ Returned(c)
        /\ call[c].out_of_order
        /\ Len(Futs(c)) >= 2
        /\ \A i \in DOMAIN Futs(c) : Futs(c)[i].data # <<>>

\* C7: the cache never holds an entry of a period later than today, and the
\* completion of a fetch requested for a period after that day's date --
\* with a result or with an error -- leaves the cache as it is.
C7_NoFutureCaching ==
    [][/\ \A n \in CacheNames(_cache') : n[3] <= today'
       /\ \A c \in Calls : \A i \in 1..MaxDay :
              (Completes(c, i) /\ Futs(c)[i].period > call[c].today0)
                  => UNCHANGED <<_cache, _sizes>>]_vars

\* C7 witness: the fetch of a period that is still in the future has
\* completed with a result, and the cache holds no entry for it
C7_Witness ==
    \E c \in Calls : \E i \in DOMAIN Futs(c) :
        /\ Futs(c)[i].period > today
        /\ Futs(c)[i].state = "done"
        /\ Futs(c)[i].ok
        /\ Key(call[c].attr, Futs(c)[i].period) \notin CacheNames(_cache)

\* C8: when a read of today completes with a series the cache can admit,
\* the cache then holds that series under (cs, attr, today).
C8_LiveReadWritesCache ==
    [][\A c \in Calls : \A i \in 1..MaxDay :
          (/\ Completes(c, i)
           /\ Futs(c)[i].period = call[c].today0
           /\ call'[c].futs[i].state = "done"
           /\ call'[c].futs[i].ok
           /\ get_item_size(call'[c].futs[i].data) < max_size)
          => /\ Key(call[c].attr, Futs(c)[i].period) \in CacheNames(_cache')
             /\ OdLookup(_cache', Key(call[c].attr, Futs(c)[i].period))
                    = call'[c].futs[i].data]_vars

\* two calls in a row: c2 was made after c1 had returned, with the same
\* arguments, and both returned a series
InARow(c1, c2) ==
    /\ c1 < c2
    /\ c1 \in call[c2].prior
    /\ call[c1].attr = call[c2].attr
    /\ call[c1].start_date = call[c2].start_date
    /\ call[c1].end_date = call[c2].end_date
    /\ Returned(c1)
    /\ Returned(c2)

\* the periods of a call that were before today when it was made
Historical(c) ==
    {call[c].periods[i] : i \in {j \in DOMAIN call[c].periods :
                                   call[c].periods[j] < call[c].today0}}

FitTogether(H) ==
    /\ \A p \in H : get_item_size(db[p]) < max_size
    /\ SumOver([p \in H |-> get_item_size(db[p])], H) <= max_size

OnlyFailedSoFar(p) ==
    /\ \E c \in Calls : \E i \in DOMAIN Futs(c) :
           /\ Futs(c)[i].period = p
           /\ Futs(c)[i].cb = "cache"
           /\ Failed(Futs(c)[i])
    /\ \A c \in Calls : \A i \in DOMAIN Futs(c) :
           (Futs(c)[i].period = p /\ Futs(c)[i].cb = "cache"
                /\ Futs(c)[i].state # "pending")
               => ~Futs(c)[i].ok

\* C10: a fetch that fails leaves the cache as it is, and the next request
\* for a period whose fetches have only failed misses the cache and submits
\* a new fetch.
C10_ErrorsNotCached ==
    [][/\ \A c \in Calls : \A i \in 1..MaxDay :
              (Completes(c, i) /\ ~call'[c].futs[i].ok)
                  => UNCHANGED <<_cache, _sizes>>
       /\ \A c \in Calls :
              Starts(c) =>
                  \A j \in DOMAIN call'[c].periods :
                      OnlyFailedSoFar(call'[c].periods[j])
                          => /\ ~call'[c].futs[j].hit
                             /\ call'[c].futs[j].state = "pending"]_vars

\* C10 witness: the fetch of a historical period failed, and the next call
\* fetches the period again
C10_Witness ==
    \E c1, c2 \in Calls : \E i \in DOMAIN Futs(c1) : \E j \in DOMAIN Futs(c2) :
        /\ c1 < c2
        /\ Futs(c1)[i].cb = "cache"
        /\ Failed(Futs(c1)[i])
        /\ Futs(c2)[j].period = Futs(c1)[i].period
        /\ ~Futs(c2)[j].hit
        /\ Futs(c2)[j].period < call[c2].today0

(***************************************************************************)
(* Claims C11..C20.                                                        *)
(***************************************************************************)
\* the fetches of the chunk a call is awaiting (or was awaiting when it
\* returned) that have failed
FailedInChunk(c) ==
    {i \in Chunk(Futs(c), call[c].chunk) : Failed(Futs(c)[i])}
\* the fetch among S that failed first
FirstRaised(c, S) ==
    CHOOSE i \in S : \A j \in S : Futs(c)[i].failed_at <= Futs(c)[j].failed_at
\* a call that has returned a series had no fetch fail
NoPartialSeries(c) ==
    Returned(c) => \A i \in DOMAIN Futs(c) : Futs(c)[i].ok

FailedEarly(c) ==
    {i \in FailedInChunk(c) : Futs(c)[i].failed_at <= call[c].awaited_from}

Merged(c) ==
    {i \in DOMAIN Futs(c) : /\ Futs(c)[i].cb = "merge"
                            /\ Completed(Futs(c)[i])
                            /\ Futs(c)[i].ok}
\* the cached series of the period of fetch i
CachedFor(c, i) == OdLookup(_cache, Key(call[c].attr, Futs(c)[i].period))

NoDuplicate(series) ==
    \A a, b \in DOMAIN series : a # b => series[a] # series[b]

\* C13: in the live-day merge the truncated cached part and the fetched part
\* share no (data_time, data_time_us) pair, and the merged series holds no
\* pair twice.
C13_MergeDisjoint ==
    [][\A c \in Calls : \A i \in Days :
          (/\ Completes(c, i)
           /\ Futs(c)[i].cb = "merge"
           /\ call'[c].futs[i].ok)
          => /\ SamplesOf(Futs(c)[i].truncated)
                    \cap SamplesOf(Query(db, Futs(c)[i].period,
                                         Futs(c)[i].after)) = {}
             /\ NoDuplicate(call'[c].futs[i].data)]_vars

\* C13 witness: a merge of a non-empty truncated part with fetched rows
C13_Witness ==
    \E c \in Calls : \E i \in Merged(c) :
        /\ Futs(c)[i].truncated # <<>>
        /\ Len(Futs(c)[i].data) > Len(Futs(c)[i].truncated)

LateSamples(c, i) ==
    {s \in SamplesOf(db[Futs(c)[i].period]) \ SamplesOf(CachedFor(c, i)) :
        data_time(s) < latest_s(CachedFor(c, i))}

NonDecreasing(series) ==
    \A a, b \in DOMAIN series : a < b => Before(series[a], series[b])

\* C15: the series get_attribute_data returns is non-decreasing in
\* (data_time, data_time_us), a live-day part merged from the cache included.
C15_SeriesNonDecreasing ==
    \A c \in Calls : Returned(c) => NonDecreasing(call[c].ret.value)

\* C15 witness: a returned series of an earlier day's rows followed by a
\* live-day part merged from cached and fetched rows
C15_Witness ==
    \E c \in Calls : \E i \in Merged(c) :
        /\ Returned(c)
        /\ i > 1
        /\ Futs(c)[1].data # <<>>
        /\ Futs(c)[i].truncated # <<>>
        /\ Len(Futs(c)[i].data) > Len(Futs(c)[i].truncated)

\* ---------------------------------------------------------------------
\* The bridge between the driver's futures and the loop's futures:
\* aiocassandra.py, one execute_future per fetch.  The driver calls the
\* callbacks once per page on one of its own threads; the loop runs what
\* was scheduled on it, one callable at a time, on the task-loop thread.
\* ---------------------------------------------------------------------

\* the most pages one statement's result arrives in
MaxPages == 2
\* the number of statements executed through the bridge
MaxFetches == 2

Fetches == 1..MaxFetches
BridgeThreads == {"loop", "driver"}

\* the rows the driver delivers as page k of statement id
Page(id, k) == << <<id, k>> >>
\* the whole result of a statement of n pages
RECURSIVE AllPages(_, _)
AllPages(id, n) == IF n = 0 THEN <<>> ELSE AllPages(id, n - 1) \o Page(id, n)

\* aiocassandra.py:63  DataFrame(result): the rows of one page as a frame
DataFrame(result) == result

\* a statement that has not been executed yet
NoFetch ==
    [driver |-> "idle", n |-> 0, delivered |-> 0, requests |-> 0,
     acc |-> <<>>, cb_threads |-> <<>>,
     afut |-> [state |-> "none", value |-> <<>>, by |-> "none",
               scheduled |-> FALSE, sets |-> 0, invalid |-> FALSE]]

\* asyncio: Future.set_result / set_exception, run on `thread`: a future that
\* is not pending raises InvalidStateError; otherwise the future is completed
\* and its done callbacks are scheduled on the loop with call_soon
Future_set(b, thread, id, fn, arg, scheduled) ==
    LET a == b.fut[id].afut
    IN  IF a.state # "pending"
        THEN [b EXCEPT !.fut[id].afut.invalid = TRUE,
                       !.fut[id].afut.sets = @ + 1]
        ELSE [b EXCEPT !.fut[id].afut =
                          [state |-> fn, value |-> arg, by |-> thread,
                           scheduled |-> scheduled, sets |-> a.sets + 1,
                           invalid |-> FALSE],
                       !.queue = Append(@, [fn |-> "callbacks", id |-> id,
                                            arg |-> <<>>])]

\* mutant of call_soon_threadsafe: the callable is run at once, in the
\* calling thread
call_soon_threadsafe_Direct(b, thread, id, fn, arg) ==
    Future_set(b, thread, id, fn, arg, FALSE)

\* asyncio: loop.call_soon_threadsafe(fn, arg), called on any thread: the
\* callable is put on the loop's queue, and the loop thread will run it
call_soon_threadsafe(b, thread, id, fn, arg) ==
    [b EXCEPT !.queue = Append(@, [fn |-> fn, id |-> id, arg |-> arg])]

\* mutant of _asyncio_result: the future is completed after the first page
_asyncio_result_FirstPage(b, thread, id, result, has_more_pages) ==
    LET acc == Append(b.fut[id].acc, DataFrame(result))
        b1 == [b EXCEPT !.fut[id].acc = acc,
                        !.fut[id].cb_threads = Append(@, thread),
                        !.fut[id].delivered = @ + 1,
                        !.fut[id].driver = "finished"]
    IN  call_soon_threadsafe(b1, thread, id, "result", concat(acc))

\* mutant of _asyncio_result: the future is completed in the thread of the
\* callback
_asyncio_result_Direct(b, thread, id, result, has_more_pages) ==
    LET acc == Append(b.fut[id].acc, DataFrame(result))
        b1 == [b EXCEPT !.fut[id].acc = acc,
                        !.fut[id].cb_threads = Append(@, thread),
                        !.fut[id].delivered = @ + 1]
    IN  IF has_more_pages
        THEN [b1 EXCEPT !.fut[id].driver = "fetching",
                        !.fut[id].requests = @ + 1]
        ELSE Future_set([b1 EXCEPT !.fut[id].driver = "finished"],
                        thread, id, "result", concat(acc), FALSE)

\* aiocassandra.py:62-73  the success callback, run once per page:
\* start_fetching_next_page while has_more_pages, then afut.set_result
\* through the loop
_asyncio_result(b, thread, id, result, has_more_pages) ==
    LET acc == Append(b.fut[id].acc, DataFrame(result))
        b1 == [b EXCEPT !.fut[id].acc = acc,
                        !.fut[id].cb_threads = Append(@, thread),
                        !.fut[id].delivered = @ + 1]
    IN  IF has_more_pages
        THEN [b1 EXCEPT !.fut[id].driver = "fetching",
                        !.fut[id].requests = @ + 1]
        ELSE call_soon_threadsafe(
                 [b1 EXCEPT !.fut[id].driver = "finished"],
                 thread, id, "result", concat(acc))

\* mutant of _asyncio_exception: the pages received so far are delivered
_asyncio_exception_Partial(b, thread, id, exc) ==
    LET b1 == [b EXCEPT !.fut[id].driver = "failed",
                        !.fut[id].cb_threads = Append(@, thread)]
    IN  IF b.fut[id].acc # <<>>
        THEN call_soon_threadsafe(b1, thread, id, "result",
                                  concat(b.fut[id].acc))
        ELSE call_soon_threadsafe(b1, thread, id, "exception", exc)

\* aiocassandra.py:76-77  the error callback: afut.set_exception through
\* the loop
_asyncio_exception(b, thread, id, exc) ==
    call_soon_threadsafe(
        [b EXCEPT !.fut[id].driver = "failed",
                  !.fut[id].cb_threads = Append(@, thread)],
        thread, id, "exception", exc)

\* the error the driver reports for statement id
DriverError(id) == <<"error", id>>

\* every fetch of this specification is for the same historical period
BridgeKey == Key("a", 1)

InitBridge ==
    /\ _cache = <<>>
    /\ _sizes = << >>
    /\ max_size = MaxPages + 1
    /\ access_order = <<>>
    /\ insert_order = <<>>
    /\ last_op = NoOp
    /\ thr = << >>
    /\ today = 0
    /\ db = << >>
    /\ call = << >>
    /\ win = << >>
    /\ memo = << >>
    /\ retry = << >>
    /\ prep = << >>
    /\ trim = << >>
    /\ LastIdle
    /\ bridge = [fut |-> [id \in Fetches |-> NoFetch], queue |-> <<>>,
                 writes |-> <<>>]

\* aiocassandra.py:80-87  execute_future, called on the loop thread, for a
\* statement of n pages.  The driver runs a callback at once, in the calling
\* thread, when the outcome is already there as add_callbacks registers it.
ExecuteFuture(id, n, ready) ==
    LET b0 == [bridge EXCEPT
                  !.fut[id].driver = "fetching", !.fut[id].n = n,
                  !.fut[id].afut.state = "pending"]
    IN
    /\ bridge.fut[id].driver = "idle"
    /\ IF id = 1 THEN TRUE ELSE bridge.fut[id - 1].driver # "idle"
    /\ bridge' =
          CASE ready = "no" -> b0
            [] ready = "page" ->
                  _asyncio_result(b0, "loop", id, Page(id, 1), 1 < n)
            [] ready = "error" ->
                  _asyncio_exception(b0, "loop", id, DriverError(id))
    /\ UNCHANGED <<cacheVars, histVars, thr, connVars, win, memo, retry,
                   prep, trim, lastVars>>

\* the driver receives the next page and runs the success callback on one
\* of its threads
PageArrives(id) ==
    LET k == bridge.fut[id].delivered + 1 IN
    /\ bridge.fut[id].driver = "fetching"
    /\ bridge' = _asyncio_result(bridge, "driver", id, Page(id, k),
                                 k < bridge.fut[id].n)
    /\ UNCHANGED <<cacheVars, histVars, thr, connVars, win, memo, retry,
                   prep, trim, lastVars>>

\* the driver fails to fetch a page and runs the error callback on one of
\* its threads
DriverFails(id) ==
    /\ bridge.fut[id].driver = "fetching"
    /\ bridge' = _asyncio_exception(bridge, "driver", id, DriverError(id))
    /\ UNCHANGED <<cacheVars, histVars, thr, connVars, win, memo, retry,
                   prep, trim, lastVars>>

\* the loop thread runs the next callable of its queue: a scheduled
\* set_result / set_exception, or the done callback of a completed future,
\* hdbpp.py:354-359, which stores the result unless there is an exception
LoopRuns ==
    LET item == Head(bridge.queue)
        b0 == [bridge EXCEPT !.queue = Tail(@)]
        a == bridge.fut[item.id].afut
        w == set(_cache, _sizes, max_size, BridgeKey, a.value)
        writes == item.fn = "callbacks" /\ a.state = "result"
    IN
    /\ bridge.queue # <<>>
    /\ bridge' =
          IF item.fn = "callbacks"
          THEN IF writes
               THEN [b0 EXCEPT !.writes =
                        Append(@, [id |-> item.id, thread |-> "loop",
                                   completed_by |-> a.by])]
               ELSE b0
          ELSE Future_set(b0, "loop", item.id, item.fn, item.arg, TRUE)
    /\ _cache' = IF writes THEN w.cache ELSE _cache
    /\ _sizes' = IF writes THEN w.sizes ELSE _sizes
    /\ UNCHANGED <<max_size, histVars, thr, connVars, win, memo, retry,
                   prep, trim, lastVars>>

NextBridge ==
    \/ \E id \in Fetches, n \in 1..MaxPages, ready \in {"no", "page", "error"} :
          ExecuteFuture(id, n, ready)
    \/ \E id \in Fetches : PageArrives(id)
    \/ \E id \in Fetches : DriverFails(id)
    \/ LoopRuns

SpecBridge == InitBridge /\ [][NextBridge]_vars

\* C21: the awaitable returned by execute_future is never completed on a
\* driver thread: every completion, result or exception, was scheduled with
\* the loop's thread-safe call and executed on the task-loop thread.
C21_CompletedOnLoopOnly ==
    \A id \in Fetches :
        bridge.fut[id].afut.state \in {"result", "exception"} =>
            /\ bridge.fut[id].afut.by = "loop"
            /\ bridge.fut[id].afut.scheduled

\* a fetch whose callbacks all ran on a driver thread has been completed,
\* one with a result and one with an exception
C21_Witness ==
    /\ bridge.fut[1].afut.state = "result"
    /\ bridge.fut[1].cb_threads = <<"driver", "driver">>
    /\ bridge.fut[2].afut.state = "exception"
    /\ bridge.fut[2].cb_threads = <<"driver", "driver">>

\* the callables scheduled on the loop for statement id and not run yet
Scheduled(id) ==
    {i \in DOMAIN bridge.queue :
        bridge.queue[i].id = id /\ bridge.queue[i].fn # "callbacks"}

\* C22: for a statement whose result arrives in n >= 1 pages the awaitable
\* stays pending until the success callback of the last page has run, the
\* next page is requested after every page but the last, and the awaitable
\* is then completed with the concatenation of the n pages in the order
\* they were delivered.
C22_AllPagesInOrder ==
    \A id \in Fetches :
        LET f == bridge.fut[id] IN
        f.driver # "idle" =>
            /\ f.afut.state = "result" =>
                  f.delivered = f.n /\ f.afut.value = AllPages(id, f.n)
            /\ \A i \in Scheduled(id) :
                  bridge.queue[i].fn = "result" =>
                      /\ f.delivered = f.n
                      /\ bridge.queue[i].arg = AllPages(id, f.n)
            /\ f.requests = Min({f.delivered, f.n - 1})
            /\ f.delivered < f.n => f.driver \in {"fetching", "failed"}
            /\ f.delivered = f.n =>
                  f.afut.state = "result" \/ Scheduled(id) # {}

\* a statement of more than one page has completed with all its pages
C22_Witness ==
    \E id \in Fetches :
        /\ bridge.fut[id].n >= 2
        /\ bridge.fut[id].afut.state = "result"
        /\ bridge.fut[id].afut.value = AllPages(id, bridge.fut[id].n)
        /\ bridge.fut[id].requests = bridge.fut[id].n - 1

\* C23: the awaitable is completed at most once: when the driver reports an
\* error, also after some pages were delivered, the awaitable completes with
\* that error and never with a partial result, and it is never given both a
\* result and an exception.
C23_CompletedOnce ==
    \A id \in Fetches :
        LET f == bridge.fut[id] IN
        /\ f.afut.sets + Cardinality(Scheduled(id)) <= 1
        /\ ~f.afut.invalid
        /\ f.driver = "failed" =>
              /\ f.afut.state \in {"pending", "exception"}
              /\ f.afut.state = "exception" => f.afut.value = DriverError(id)
              /\ f.afut.state = "pending" =>
                    \E i \in Scheduled(id) :
                        /\ bridge.queue[i].fn = "exception"
                        /\ bridge.queue[i].arg = DriverError(id)
        /\ f.afut.state = "exception" => f.driver = "failed"
        /\ f.afut.state = "result" => f.driver = "finished"

\* the driver failed after it had delivered a page, and the awaitable holds
\* the error
C23_Witness ==
    \E id \in Fetches :
        /\ bridge.fut[id].driver = "failed"
        /\ bridge.fut[id].delivered >= 1
        /\ bridge.fut[id].afut.state = "exception"
        /\ bridge.fut[id].afut.sets = 1

\* C25: every write to the connector's data cache is executed on the
\* task-loop thread, never on a driver thread: the result was handed to the
\* loop, which completed the future, before the callback that caches it ran;
\* the writes of one key are therefore one after the other.
C25_CacheWritesOnLoop ==
    /\ \A i \in DOMAIN bridge.writes :
          /\ bridge.writes[i].thread = "loop"
          /\ bridge.writes[i].completed_by = "loop"
    /\ _cache # <<>> => bridge.writes # <<>>

\* two fetches of the same key, delivered by driver threads, have both been
\* written to the cache
C25_Witness ==
    /\ Len(bridge.writes) = 2
    /\ bridge.writes[1].id # bridge.writes[2].id
    /\ \A id \in {1, 2} : "driver" \in {bridge.fut[id].cb_threads[k] :
                                          k \in DOMAIN bridge.fut[id].cb_threads}
    /\ BridgeKey \in CacheNames(_cache)

(***************************************************************************)
(* SpecCancel: the request of SpecGather, which its caller may cancel      *)
(* while the coroutine awaits a chunk.  A per-day future then has two more *)
(* states: "cancelled" (cancelled on the loop while the driver still runs  *)
(* the statement) and "discarded" (the driver's outcome arrived after the  *)
(* cancellation).                                                          *)
(***************************************************************************)

\* asyncio: cancelling the gathering future cancels its children that are
\* not done; a cancelled child runs its done callbacks, and add_to_cache
\* (hdbpp.py:354-356) raises CancelledError at fut_.exception()
cancel_children(futs, k) ==
    [i \in DOMAIN futs |->
        IF i \in Chunk(futs, k) /\ futs[i].state = "pending"
        THEN [futs[i] EXCEPT !.state = "cancelled"]
        ELSE futs[i]]

\* the caller cancels the task running get_attribute_data while it is
\* suspended at hdbpp.py:321.  When gather is still waiting, the task
\* cancels it, and gather cancels its children; the coroutine is then
\* resumed with CancelledError, which it does not catch.
Cancel(c) ==
    /\ call[c].pc = "gather"
    /\ call' = [call EXCEPT
          ![c].pc = "done",
          ![c].ret = [kind |-> "cancelled"],
          ![c].futs = IF call[c].gathered.st = "waiting"
                      THEN cancel_children(@, call[c].chunk) ELSE @]
    /\ UNCHANGED <<cacheVars, histVars, thr, utilVars, today, db>>

\* the driver reports the outcome of a statement whose future was
\* cancelled: the loop runs afut.set_result / afut.set_exception
\* (aiocassandra.py:62-77), which raises InvalidStateError on a cancelled
\* future; no done callback runs again
LateResult(c, i, ok) ==
    /\ i \in DOMAIN call[c].futs
    /\ call[c].futs[i].state = "cancelled"
    /\ ok \/ Cardinality(FailedFetches) < MaxFailures
    /\ call' = [call EXCEPT ![c].futs[i] =
                   [Outcome(@, db, ok) EXCEPT !.state = "discarded"]]
    /\ UNCHANGED <<cacheVars, histVars, thr, utilVars, today, db>>

NextCancel ==
    \/ \E attr \in Attrs, d0 \in GatherPeriods :
          Start(1, attr, d0, GatherDays)
    \/ \E c \in Calls, i \in GatherPeriods, ok \in BOOLEAN :
          FetchCompletes(c, i, ok)
    \/ \E c \in Calls : Resume(c)
    \/ \E c \in Calls : Cancel(c)
    \/ \E c \in Calls, i \in GatherPeriods, ok \in BOOLEAN :
          LateResult(c, i, ok)

SpecCancel == InitGather /\ [][NextCancel]_vars

\* the driver hands the result of per-day fetch i of call c to the loop in
\* this step
ResultArrives(c, i) ==
    /\ i \in DOMAIN Futs(c)
    /\ Futs(c)[i].state \in {"pending", "cancelled"}
    /\ call'[c].futs[i].state \in {"done", "discarded"}
    /\ call'[c].futs[i].ok

\* C24: if the caller cancels a get_attribute_data call while per-day
\* fetches are outstanding, every result for a historical period that
\* arrives after the cancellation is still inserted into the cache.
C24_LateResultsCached ==
    [][\A c \in Calls, i \in GatherPeriods :
          (/\ call[c].ret.kind = "cancelled"
           /\ ResultArrives(c, i)
           /\ Futs(c)[i].period < today)
          => /\ Key(call[c].attr, Futs(c)[i].period) \in CacheNames(_cache')
             /\ OdLookup(_cache', Key(call[c].attr, Futs(c)[i].period))
                    = call'[c].futs[i].data]_vars

\* C26: once a value is inserted for a historical key (period < today),
\* every later read of that key returns that value until the entry is
\* evicted: no step of the connector, a second fetch of the same period
\* completing later included, changes the value held, and a lookup that
\* hits hands out the value held.
C26_HistoricalValueImmutable ==
    [][/\ _cache' # _cache =>
             \A k \in CacheNames(_cache) \cap CacheNames(_cache') :
                 k[3] < today => OdLookup(_cache', k) = OdLookup(_cache, k)
       /\ \A c \in Calls :
             Starts(c) =>
                \A j \in DOMAIN call'[c].futs :
                    call'[c].futs[j].hit =>
                        call'[c].futs[j].data =
                            OdLookup(_cache, Key(call'[c].attr,
                                                 call'[c].futs[j].period))]_vars

\* the fetch of call c for period p has completed with a result and has
\* run the cache callback
StoredBy(c, p) ==
    \E i \in DOMAIN Futs(c) :
        /\ Futs(c)[i].period = p
        /\ Futs(c)[i].cb = "cache"
        /\ Futs(c)[i].state = "done"
        /\ Futs(c)[i].ok

\* two fetches of the same historical period, one of each call, have both
\* completed and the key is held
C26_Witness ==
    \E p \in Days :
        /\ p < today
        /\ StoredBy(1, p)
        /\ StoredBy(2, p)
        /\ Key(call[1].attr, p) \in CacheNames(_cache)
        /\ OdLookup(_cache, Key(call[1].attr, p)) # <<>>

(***************************************************************************)
(* SpecPrepare: the registry of prepared data statements.  prepare_queries *)
(* goes through the data types; for each, preparing the "data" statement   *)
(* or the "data_after" statement may raise.  Fetches are then made for     *)
(* attributes of any data type; an attribute is named after its type.      *)
(***************************************************************************)

\* the number of data types (HDBPP_DATA_TYPES, hdbpp.py:55)
MaxTypes == 3
\* the number of fetches made after the statements were prepared
MaxQueries == 2

HDBPP_DATA_TYPES == [i \in 1..MaxTypes |-> i]
\* what session.prepare does for a data type: both statements are prepared,
\* the first raises, or the second raises
PrepareOutcomes == {"ok", "data", "data_after"}

\* mutant of prepare_step: the first failure ends the preparation
prepare_step_Stops(p) ==
    LET data_type == HDBPP_DATA_TYPES[p.next]
        o == p.outcome[data_type]
    IN  IF o = "ok"
        THEN [p EXCEPT !.prepared.data = @ \cup {data_type},
                       !.prepared.data_after = @ \cup {data_type},
                       !.next = @ + 1,
                       !.pc = IF p.next = MaxTypes THEN "ready" ELSE @]
        ELSE [p EXCEPT !.warned = @ \cup {data_type}, !.pc = "ready"]

\* hdbpp.py:196-211  one turn of the loop over HDBPP_DATA_TYPES: the
\* statements prepared before the exception stay registered, the exception
\* is logged and the loop goes on
prepare_step(p) ==
    LET data_type == HDBPP_DATA_TYPES[p.next]
        o == p.outcome[data_type]
        p1 == [p EXCEPT !.next = @ + 1,
                        !.pc = IF p.next = MaxTypes THEN "ready" ELSE @]
    IN  CASE o = "ok" ->
                [p1 EXCEPT !.prepared.data = @ \cup {data_type},
                           !.prepared.data_after = @ \cup {data_type}]
          [] o = "data" ->
                [p1 EXCEPT !.warned = @ \cup {data_type}]
          [] o = "data_after" ->
                [p1 EXCEPT !.prepared.data = @ \cup {data_type},
                           !.warned = @ \cup {data_type}]

\* hdbpp.py:399-411  _get_attribute_period for an attribute of data_type:
\* the lookup in the registry raises KeyError, or the statement is bound
\* and submitted with execute_future
prepared_fetch(p, data_type, period, after) ==
    LET registry == IF after THEN p.prepared.data_after ELSE p.prepared.data
    IN  IF data_type \notin registry
        THEN [p EXCEPT !.results = Append(@, [data_type |-> data_type,
                                              raised |-> "KeyError"])]
        ELSE [p EXCEPT
                 !.results = Append(@, [data_type |-> data_type,
                                        raised |-> "none"]),
                 !.submitted = Append(@, [data_type |-> data_type,
                                          period |-> period, after |-> after,
                                          state |-> "pending"])]

InitPrepare ==
    /\ _cache = <<>>
    /\ _sizes = << >>
    /\ max_size = MaxBudget
    /\ access_order = <<>>
    /\ insert_order = <<>>
    /\ last_op = NoOp
    /\ thr = << >>
    /\ today = 0
    /\ db = << >>
    /\ call = << >>
    /\ win = << >>
    /\ memo = << >>
    /\ retry = << >>
    /\ bridge = << >>
    /\ trim = << >>
    /\ LastIdle
    /\ \E outcome \in [1..MaxTypes -> PrepareOutcomes] :
          prep = [pc |-> "preparing", next |-> 1, outcome |-> outcome,
                  prepared |-> [data |-> {}, data_after |-> {}],
                  warned |-> {}, results |-> <<>>, submitted |-> <<>>]

\* hdbpp.py:196-211
PrepareNext ==
    /\ prep.pc = "preparing"
    /\ prep' = prepare_step(prep)
    /\ UNCHANGED <<cacheVars, histVars, thr, connVars, win, memo, retry,
                   bridge, trim, lastVars>>

\* hdbpp.py:399-411  a fetch for an attribute of data_type: without `after`
\* for a period that is not cached (hdbpp.py:349), with it for the rows
\* that follow a cached series of today (hdbpp.py:389-390)
PreparedFetch(data_type, period, after) ==
    /\ prep.pc = "ready"
    /\ Len(prep.results) < MaxQueries
    /\ prep' = prepared_fetch(prep, data_type, period, after)
    /\ UNCHANGED <<cacheVars, histVars, thr, connVars, win, memo, retry,
                   bridge, trim, lastVars>>

\* a submitted statement completes with one row; the done callback of a
\* historical fetch stores the result (hdbpp.py:353-359)
PreparedFetchDone(i) ==
    LET q == prep.submitted[i]
        w == set(_cache, _sizes, max_size, <<"cs", q.data_type, q.period>>,
                 DaySeries(q.period, 1))
    IN
    /\ i \in DOMAIN prep.submitted
    /\ q.state = "pending"
    /\ prep' = [prep EXCEPT !.submitted[i].state = "done"]
    /\ _cache' = IF q.after THEN _cache ELSE w.cache
    /\ _sizes' = IF q.after THEN _sizes ELSE w.sizes
    /\ UNCHANGED <<max_size, histVars, thr, connVars, win, memo, retry,
                   bridge, trim, lastVars>>

NextPrepare ==
    \/ PrepareNext
    \/ \E data_type \in 1..MaxTypes, after \in BOOLEAN :
          PreparedFetch(data_type, 1, after)
    \/ \E i \in 1..MaxQueries : PreparedFetchDone(i)

SpecPrepare == InitPrepare /\ [][NextPrepare]_vars

restrict_time(res, t0, t1) ==
    SelectSeq(res, LAMBDA smp : /\ Before(t0, <<data_time(smp), 0>>)
                                /\ Before(<<data_time(smp), 0>>, t1))

InitTrim ==
    /\ _cache = <<>>
    /\ _sizes = << >>
    /\ max_size = MaxBudget
    /\ access_order = <<>>
    /\ insert_order = <<>>
    /\ last_op = NoOp
    /\ thr = << >>
    /\ today = 0
    /\ db = << >>
    /\ call = << >>
    /\ win = << >>
    /\ memo = << >>
    /\ retry = << >>
    /\ bridge = << >>
    /\ prep = << >>
    /\ LastIdle
    /\ \E S \in SUBSET TodaySamples(1), t0 \in TodaySamples(1),
          t1 \in TodaySamples(1) :
          /\ Cardinality(S) <= MaxRows
          /\ trim = [res |-> SeriesOf(S), t0 |-> t0, t1 |-> t1,
                     done |-> FALSE, kept |-> <<>>]

\* data.py:96-101
Trim ==
    /\ ~trim.done
    /\ trim' = [trim EXCEPT !.done = TRUE,
                            !.kept = restrict_time(trim.res, trim.t0, trim.t1)]
    /\ UNCHANGED <<cacheVars, histVars, thr, connVars, win, memo, retry,
                   bridge, prep, lastVars>>

NextTrim == Trim

SpecTrim == InitTrim /\ [][NextTrim]_vars

\* C28: with restrict_time set, get_data keeps exactly the samples whose
\* composed time (data_time plus data_time_us microseconds) lies in
\* [t0, t1]; a sample whose data_time equals t1 and whose data_time_us > 0
\* is dropped.
C28_TrimByComposedTime ==
    trim.done =>
        trim.kept = SelectSeq(trim.res, LAMBDA smp : /\ Before(trim.t0, smp)
                                                     /\ Before(smp, trim.t1))

\* the local calendar day of the UTC instant t
LocalDayOfUtc(t, zone) == (t + zone) \div SecsPerDay

\* C29: a timestamp given without a zone is taken as UTC and converted to
\* the local zone before its day is derived: for a zone-less t0 or t1 the
\* period chosen is the local calendar day of the UTC instant t, for every
\* local UTC offset.
C29_NaiveTakenAsUtc ==
    (win.derived /\ win.periods # <<>>) =>
        /\ ~win.start_time.aware =>
              win.periods[1] = LocalDayOfUtc(win.start_time.t, win.zone)
        /\ ~win.end_time.aware =>
              win.periods[Len(win.periods)] =
                  LocalDayOfUtc(win.end_time.t, win.zone)

\* C30: get_attribute_data always resolves to a series (data frame), for
\* every pair of bounds, a window whose end date lies before its start date
\* included: a call that returns without an error returns a series.
C30_AlwaysASeries ==
    \A c \in Calls :
        call[c].pc = "done" => call[c].ret.kind \in {"series", "error"}

\* the fetches of futs for periods before the day td that have completed
\* with a result
HistFetched(futs, td) ==
    {i \in DOMAIN futs : /\ ~futs[i].hit
                          /\ futs[i].period < td
                          /\ futs[i].state = "done"
                          /\ futs[i].ok}
\* call c returns a series in this step
Returns(c) ==
    /\ call[c].pc # "done"
    /\ call'[c].pc = "done"
    /\ call'[c].ret.kind = "series"

C32_GetReturnsWhatWasSet ==
    [][/\ (last_op'.op = "set" /\ last_op'.cost < max_size) =>
             /\ last_op'.name \in CacheNames(_cache')
             /\ OdLookup(_cache', last_op'.name) = last_op'.value
       /\ \A k \in CacheNames(_cache) :
             IF k \in CacheNames(_cache')
             THEN (last_op'.op = "set" /\ last_op'.name = k)
                     \/ OdLookup(_cache', k) = OdLookup(_cache, k)
             ELSE /\ last_op'.op = "set"
                  /\ k \in SeqNames(last_op'.evicted)
       /\ last_op'.op = "get" =>
             IF last_op'.name \in CacheNames(_cache)
             THEN /\ last_op'.hit
                  /\ last_op'.ret = <<OdLookup(_cache, last_op'.name)>>
             ELSE /\ ~last_op'.hit
                  /\ last_op'.ret = <<>>
                  /\ UNCHANGED <<_cache, _sizes, access_order>>]_vars

\* a get has returned the value of an entry that is not the last one set,
\* while another entry is held
C32_Witness ==
    /\ last_op.op = "get"
    /\ last_op.hit
    /\ last_op.ret = << << <<0, 1>> >> >>
    /\ Len(_cache) = 2

\* the recorded total of the entries of c from position n + 1 on
TotalFrom(c, s, n) == SumOver(s, {c[i].name : i \in (n + 1)..Len(c)})

\* C33: set evicts no more entries than needed in LRU order: the evicted
\* entries are the least recently used ones, eviction stops at the first
\* point where the recorded total plus the new cost fits max_size, the key
\* being set is counted once (its prior entry is removed first), and
\* eviction is never attempted on an empty cache.
C33_EvictsNoMoreThanNeeded ==
    [][(last_op'.op = "set" /\ last_op'.admitted) =>
          LET c0 == OdPop(_cache, last_op'.name)
              s0 == DictPop(_sizes, last_op'.name)
              n == Len(last_op'.evicted)
          IN  /\ ~last_op'.raised
              /\ n <= Len(c0)
              /\ last_op'.evicted = [i \in 1..n |-> c0[i].name]
              /\ TotalFrom(c0, s0, n) + last_op'.cost <= max_size
              /\ n > 0 => TotalFrom(c0, s0, n - 1) + last_op'.cost > max_size
              /\ _cache' = Append(SubSeq(c0, n + 1, Len(c0)),
                                  Entry(last_op'.name, last_op'.value))]_vars

\* a set of a name that had an entry evicted exactly one other entry
C33_Witness ==
    /\ last_op.op = "set"
    /\ last_op.admitted
    /\ last_op.had_prior
    /\ Len(last_op.evicted) = 1
    /\ Len(_cache) = 2

\* C34: every retry of the retry adapter re-issues the wrapped call with
\* the same positional and keyword arguments as the caller's original call:
\* every invocation of f gets the arguments wrapped_f was called with.
C34_SameArgumentsEveryAttempt ==
    \A k \in DOMAIN retry.passed :
        retry.passed[k] = [args |-> retry.args, kwargs |-> retry.kwargs]

(***************************************************************************)
(* SpecLru: an LRUDict with maxduration set (utils.py:96-171).  The        *)
(* OrderedDict is a sequence of [key, value, lru] entries, front first,    *)
(* lru being the time of the entry's last use; time.time() is lru.clock.   *)
(***************************************************************************)

\* the largest maxsize tried
MaxSize == 2

LruKeys == {"x", "y", "z"}

\* OrderedDict.__setitem__: an existing key keeps its place in the order, a
\* new key is put at the end
OdSetItem(d, key, value, now) ==
    IF \E i \in DOMAIN d : d[i].key = key
    THEN [i \in DOMAIN d |-> IF d[i].key = key
                             THEN [key |-> key, value |-> value, lru |-> now]
                             ELSE d[i]]
    ELSE Append(d, [key |-> key, value |-> value, lru |-> now])

\* utils.py:125-136  the loop of purge: pop the front entry while its lru is
\* not after the limit
RECURSIVE PopExpired(_, _)
PopExpired(d, limit) ==
    IF d = <<>> THEN d
    ELSE IF d[1].lru > limit THEN d
    ELSE PopExpired(Tail(d), limit)

\* utils.py:118-136  purge: pop the overflowing entries from the front, then
\* the expired ones
purge(d, now, maxsize, maxduration) ==
    LET overflowing == IF Len(d) > maxsize THEN Len(d) - maxsize ELSE 0
        d1 == SubSeq(d, overflowing + 1, Len(d))
    IN  PopExpired(d1, now - maxduration)

InitLru ==
    /\ _cache = <<>>
    /\ _sizes = << >>
    /\ max_size = MaxBudget
    /\ access_order = <<>>
    /\ insert_order = <<>>
    /\ last_op = NoOp
    /\ thr = << >>
    /\ today = 0
    /\ db = << >>
    /\ call = << >>
    /\ win = << >>
    /\ memo = << >>
    /\ retry = << >>
    /\ bridge = << >>
    /\ prep = << >>
    /\ trim = << >>
    /\ inst = << >>
    /\ conf = << >>
    /\ pool = << >>
    /\ \E maxduration \in 1..MaxTtl, maxsize \in 1..MaxSize :
          lru = [d |-> <<>>, clock |-> 0, maxduration |-> maxduration,
                 maxsize |-> maxsize, last |-> "init"]

\* time passes
LruTick ==
    /\ lru.clock < MaxClock
    /\ lru' = [lru EXCEPT !.clock = @ + 1, !.last = "tick"]
    /\ UNCHANGED <<cacheVars, histVars, thr, connVars, win, memo, retry,
                   bridge, prep, trim, inst, conf, pool>>

\* utils.py:161-163  d[key] = value
LruSetItem(key, value) ==
    /\ lru' = [lru EXCEPT
                  !.d = purge(OdSetItem(lru.d, key, value, lru.clock),
                              lru.clock, lru.maxsize, lru.maxduration),
                  !.last = "set"]
    /\ UNCHANGED <<cacheVars, histVars, thr, connVars, win, memo, retry,
                   bridge, prep, trim, inst, conf, pool>>

\* utils.py:138-144  d[key]: a key that is held is given the current time
\* and moved to the end; another raises KeyError
LruGetItem(key) ==
    LET held == {i \in DOMAIN lru.d : lru.d[i].key = key} IN
    /\ lru' = [lru EXCEPT
                  !.d = IF held = {} THEN @
                        ELSE LET e == lru.d[CHOOSE i \in held : TRUE]
                             IN  Append(SelectSeq(@, LAMBDA x : x.key # key),
                                        [e EXCEPT !.lru = lru.clock]),
                  !.last = "get"]
    /\ UNCHANGED <<cacheVars, histVars, thr, connVars, win, memo, retry,
                   bridge, prep, trim, inst, conf, pool>>

NextLru ==
    \/ LruTick
    \/ \E key \in LruKeys : LruSetItem(key, 1)
    \/ \E key \in LruKeys : LruGetItem(key)

SpecLru == InitLru /\ [][NextLru]_vars

\* C35: in the LRUDict with maxduration set, immediately after any write by
\* __setitem__, a write that overwrites an existing key included, no entry
\* remains whose last-use time is older than maxduration, and the number of
\* entries is at most maxsize.
C35_NoExpiredEntryAfterWrite ==
    lru.last = "set" =>
        /\ \A i \in DOMAIN lru.d : lru.clock - lru.d[i].lru <= lru.maxduration
        /\ Len(lru.d) <= lru.maxsize

(***************************************************************************)
(* SpecTodayLive: SpecToday with the driver reporting an outcome for every *)
(* statement submitted and the loop running every callback and coroutine   *)
(* that is ready.                                                          *)
(***************************************************************************)
DriverReports ==
    \E c \in Calls, i \in Days, ok \in BOOLEAN : FetchCompletes(c, i, ok)
LoopResumes == \E c \in Calls : Resume(c)

SpecTodayLive ==
    /\ SpecToday
    /\ WF_vars(DriverReports)
    /\ WF_vars(LoopResumes)

Instances == {1, 2}

\* self._cache / self._sizes as instance i finds them: the class attribute
InstanceCache(i) == _cache
InstanceSizes(i) == _sizes

\* the entries of a cache as a mapping, whatever their order
EntriesOf(c) == [n \in CacheNames(c) |-> OdLookup(c, n)]

InitInstances ==
    /\ _cache = <<>>
    /\ _sizes = << >>
    /\ max_size = MaxBudget
    /\ access_order = <<>>
    /\ insert_order = <<>>
    /\ last_op = NoOp
    /\ thr = << >>
    /\ today = 0
    /\ db = << >>
    /\ call = << >>
    /\ win = << >>
    /\ memo = << >>
    /\ retry = << >>
    /\ bridge = << >>
    /\ prep = << >>
    /\ trim = << >>
    /\ lru = << >>
    /\ conf = << >>
    /\ pool = << >>
    /\ \E m \in [Instances -> 1..MaxBudget] :
           inst = [max_size |-> m, by |-> 0]

\* instance i: cache.get(name), utils.py:208-213
InstGet(i, name) ==
    /\ _cache' = get_cache(InstanceCache(i), name)
    /\ inst' = [inst EXCEPT !.by = i]
    /\ UNCHANGED <<_sizes, max_size, access_order, insert_order, last_op, thr,
                   connVars, win, memo, retry, bridge, prep, trim, lru, conf,
                   pool>>

\* instance i: cache.set(name, value), utils.py:218-236, with its max_size
InstSet(i, name, value) ==
    LET r == set(InstanceCache(i), InstanceSizes(i), inst.max_size[i],
                 name, value) IN
    /\ _cache' = r.cache
    /\ _sizes' = r.sizes
    /\ inst' = [inst EXCEPT !.by = i]
    /\ UNCHANGED <<max_size, access_order, insert_order, last_op, thr,
                   connVars, win, memo, retry, bridge, prep, trim, lru, conf,
                   pool>>

NextInstances ==
    \/ \E i \in Instances, name \in TestNames : InstGet(i, name)
    \/ \E i \in Instances, name \in TestNames, value \in TestValues :
           InstSet(i, name, value)

SpecInstances == InitInstances /\ [][NextInstances]_vars

\* C37: a call on one instance leaves the entries, the recorded costs and
\* the size of every other instance as they were, and every instance stays
\* within its own max_size.
C37_InstancesIndependent ==
    [][\A i \in Instances, j \in Instances :
          (inst'.by = i /\ j # i) =>
              /\ EntriesOf(InstanceCache(j))' = EntriesOf(InstanceCache(j))
              /\ InstanceSizes(j)' = InstanceSizes(j)
              /\ size(InstanceSizes(j))' <= inst.max_size[j]]_vars

(***************************************************************************)
(* SpecConfigs: data requests against the memoized configuration map.      *)
(* get_att_configs (hdbpp.py:230-241) builds a defaultdict(dict) from the  *)
(* configuration table and memoized_ttl keeps that object; the configs     *)
(* property (hdbpp.py:143-145) returns it, and _get_attribute_period looks *)
(* up configs[cs][attr] in it (hdbpp.py:404).  The map is a function from  *)
(* control system to the set of its configured attribute names.            *)
(*   conf.cache      <<>> or <<map, last_update>> (memoized_ttl)           *)
(*   conf.submitted  the keys whose statement was handed to the driver     *)
(*   conf.done       how many of them the driver has answered              *)
(*   conf.last       the last operation and its outcome                    *)
(* Requests are made one after another, for one historical day each.       *)
(***************************************************************************)
\* the configuration table of the database: cs_name -> att_name
ConfigTable == [cs \in ControlSystems |-> Attrs]

\* what callers ask for: configured and unconfigured names
AskedSystems == ControlSystems \cup {"nocs"}
AskedAttrs == Attrs \cup {"noattr"}

\* utils.py:39-49 around hdbpp.py:230-241: the memoized getter, called by
\* one caller at time c.clock
get_att_configs(c) ==
    IF fresh(c, c.clock) THEN c
    ELSE [c EXCEPT !.cache = <<ConfigTable, c.clock>>]

\* defaultdict(dict).__getitem__(cs): a missing key gets an empty dict
DefaultLookup(map, cs) ==
    IF cs \in DOMAIN map THEN map
    ELSE [k \in (DOMAIN map) \cup {cs} |-> IF k = cs THEN {} ELSE map[k]]

\* server.py:137-138  sorted(result.keys()) of the memoized map
ListedSystems(c) == DOMAIN get_att_configs(c).cache[1]

InitConfigs ==
    /\ _cache = <<>>
    /\ _sizes = << >>
    /\ max_size = MaxBudget
    /\ access_order = <<>>
    /\ insert_order = <<>>
    /\ last_op = NoOp
    /\ thr = << >>
    /\ today = MaxDay + 1
    /\ db = << >>
    /\ call = << >>
    /\ win = << >>
    /\ memo = << >>
    /\ retry = << >>
    /\ bridge = << >>
    /\ prep = << >>
    /\ trim = << >>
    /\ lru = << >>
    /\ inst = << >>
    /\ pool = << >>
    /\ conf = [ttl |-> MaxTtl, clock |-> 0, cache |-> <<>>, submitted |-> <<>>,
               done |-> 0, last |-> [op |-> "none"]]

ConfUnchanged ==
    UNCHANGED <<max_size, access_order, insert_order, last_op, thr, connVars,
                win, memo, retry, bridge, prep, trim, lru, inst, pool>>

\* time passes
ConfTick ==
    /\ conf.clock < MaxClock
    /\ conf' = [conf EXCEPT !.clock = @ + 1, !.last = [op |-> "tick"]]
    /\ UNCHANGED <<_cache, _sizes>>
    /\ ConfUnchanged

\* hdbpp.py:328-357 and 399-411  get_attribute_period(cs, attr, period) for
\* a day before today: the cached series, or the lookup configs[cs][attr]
\* and the statement handed to the driver
DataRequest(cs, attr, period) ==
    LET name == <<cs, attr, period>>
        c1 == get_att_configs(conf)
        map == DefaultLookup(c1.cache[1], cs)
    IN  /\ period < today
        /\ Len(conf.submitted) < MaxFetches
        /\ _cache' = get_cache(_cache, name)
        /\ UNCHANGED _sizes
        /\ conf' =
             IF get_hit(_cache, name)
             THEN [conf EXCEPT !.last = [op |-> "data", outcome |-> "cached"]]
             ELSE IF attr \in map[cs]
             THEN [c1 EXCEPT !.cache[1] = map,
                             !.submitted = Append(@, name),
                             !.last = [op |-> "data", outcome |-> "submitted"]]
             ELSE [c1 EXCEPT !.cache[1] = map,
                             !.last = [op |-> "data", outcome |-> "KeyError"]]
        /\ ConfUnchanged

\* hdbpp.py:350-356  the driver answers the oldest statement and the done
\* callback stores the series
ConfFetchDone(value) ==
    LET name == conf.submitted[conf.done + 1]
        r == set(_cache, _sizes, max_size, name, value)
    IN  /\ conf.done < Len(conf.submitted)
        /\ _cache' = r.cache
        /\ _sizes' = r.sizes
        /\ conf' = [conf EXCEPT !.done = @ + 1, !.last = [op |-> "done"]]
        /\ ConfUnchanged

\* server.py:135-141  get_controlsystems
GetControlsystems ==
    /\ conf' = [get_att_configs(conf) EXCEPT
                   !.last = [op |-> "controlsystems",
                             listed |-> ListedSystems(conf)]]
    /\ UNCHANGED <<_cache, _sizes>>
    /\ ConfUnchanged

NextConfigs ==
    \/ ConfTick
    \/ \E cs \in AskedSystems, attr \in AskedAttrs, period \in Days :
           DataRequest(cs, attr, period)
    \/ \E value \in TestValues : ConfFetchDone(value)
    \/ GetControlsystems

SpecConfigs == InitConfigs /\ [][NextConfigs]_vars

\* C38: a data request that fails with the lookup error hands no statement
\* to the driver and leaves the data cache as it was, and the control
\* systems the configuration map lists afterwards are those it listed before.
C38_FailedLookupChangesNothing ==
    [][(conf'.last.op = "data" /\ conf'.last.outcome = "KeyError") =>
          /\ conf'.submitted = conf.submitted
          /\ _cache' = _cache
          /\ _sizes' = _sizes
          /\ ListedSystems(conf') = ListedSystems(conf)]_vars

(***************************************************************************)
(* SpecPool: a memoized_ttl getter called from worker-pool threads.  The   *)
(* handlers hand hdbpp.get_att_configs and hdbpp.get_attributes to         *)
(* loop.run_in_executor(None, ...) (server.py:137, 152), so concurrent     *)
(* requests run wrapped_f (utils.py:39-49) in several threads at once.     *)
(* wrapped_f takes no lock; the producer is a blocking database query,     *)
(* during which other threads run.  The producer does not fail here.       *)
(*   pool.cache   <<>> or <<value, last_update>>, the decorator's attribute*)
(*   pool.pc[t]   "idle" or "producing"; pool.now[t] the time t's call read*)
(*   pool.runs    the time read by the call that started each producer run *)
(*   pool.ret[t]  what t's last call returned (0: none yet)                *)
(***************************************************************************)
PoolThreads == {1, 2}

InitPool ==
    /\ _cache = <<>>
    /\ _sizes = << >>
    /\ max_size = MaxBudget
    /\ access_order = <<>>
    /\ insert_order = <<>>
    /\ last_op = NoOp
    /\ thr = << >>
    /\ today = 0
    /\ db = << >>
    /\ call = << >>
    /\ win = << >>
    /\ memo = << >>
    /\ retry = << >>
    /\ bridge = << >>
    /\ prep = << >>
    /\ trim = << >>
    /\ lru = << >>
    /\ inst = << >>
    /\ conf = << >>
    /\ \E ttl \in 1..MaxTtl :
          pool = [ttl |-> ttl, clock |-> 0, cache |-> <<>>,
                  pc |-> [t \in PoolThreads |-> "idle"],
                  now |-> [t \in PoolThreads |-> 0],
                  ret |-> [t \in PoolThreads |-> 0],
                  runs |-> <<>>]

PoolUnchanged ==
    UNCHANGED <<cacheVars, histVars, thr, connVars, win, memo, retry, bridge,
                prep, trim, lru, inst, conf>>

\* time passes
PoolTick ==
    /\ pool.clock < MaxClock
    /\ pool' = [pool EXCEPT !.clock = @ + 1]
    /\ PoolUnchanged

\* utils.py:40-47  thread t enters wrapped_f: it reads the time and the
\* cache attribute, and returns the cached value or calls the producer
PoolCall(t) ==
    /\ pool.pc[t] = "idle"
    /\ IF fresh(pool, pool.clock) THEN TRUE ELSE Len(pool.runs) < MaxRuns
    /\ pool' = IF fresh(pool, pool.clock)
               THEN [pool EXCEPT !.now[t] = pool.clock,
                                 !.ret[t] = pool.cache[1]]
               ELSE [pool EXCEPT !.now[t] = pool.clock,
                                 !.pc[t] = "producing",
                                 !.runs = Append(@, pool.clock)]
    /\ PoolUnchanged

\* utils.py:47-49  the producer of thread t returns; (value, now) is stored
\* and the value returned.  The value of a run is the number of runs
\* started when it returns.
PoolProducerReturns(t) ==
    /\ pool.pc[t] = "producing"
    /\ pool' = [pool EXCEPT !.pc[t] = "idle",
                            !.cache = <<Len(pool.runs), pool.now[t]>>,
                            !.ret[t] = Len(pool.runs)]
    /\ PoolUnchanged

NextPool ==
    \/ PoolTick
    \/ \E t \in PoolThreads : PoolCall(t)
    \/ \E t \in PoolThreads : PoolProducerReturns(t)

SpecPool == InitPool /\ [][NextPool]_vars

\* C39: whatever the interleaving of the threads, no two runs of the
\* producer are started by calls made within ttl seconds of each other.
C39_OneRunPerWindowAcrossThreads ==
    \A i \in DOMAIN pool.runs, j \in DOMAIN pool.runs :
        i < j => pool.runs[j] - pool.runs[i] > pool.ttl

====
